---- MODULE Spec2Model ----
(***************************************************************************)
(* A model of the OAuth 2.0 issuer of the deAPI MCP server                 *)
(* (src/src/oauth_endpoints.py): the in-memory authorization code store,   *)
(* GET /authorize and POST /token.                                         *)
(*                                                                         *)
(* Both endpoints are coroutines on one event loop.  authorize_endpoint    *)
(* has no await, token_endpoint has exactly one (await request.form(), its *)
(* first statement), so everything a handler does to the store after that  *)
(* point is one atomic step.                                               *)
(***************************************************************************)
EXTENDS Integers, Sequences, FiniteSets, TLC

(***************************************************************************)
(* Bounds of the model.                                                    *)
(***************************************************************************)
\* Number of token requests that can be in flight at the same time.
MaxRequests == 2
\* Number of codes secrets.token_urlsafe(32) hands out in one run.
MaxCodes == 3
\* AUTHORIZATION_CODE_MAX_ENTRIES is 1000 in the source (line 46); the model
\* runs the same comparison with a capacity small enough to be reached.
AUTHORIZATION_CODE_MAX_ENTRIES == 2
\* The clock advances in steps of TickStep seconds, at most MaxTicks times.
TickStep == 600
MaxTicks == 2

(***************************************************************************)
(* Constants of the program.                                               *)
(***************************************************************************)
DEFAULT_CLIENT_ID == "deapi-mcp"
JWT_EXPIRATION_SECONDS == 3600
REFRESH_TOKEN_EXPIRATION_SECONDS == 2592000
AUTHORIZATION_CODE_EXPIRATION_SECONDS == 600
ALLOWED_REDIRECT_SCHEMES == {"http", "https"}
\* len(client_secret) < 10
MIN_CLIENT_SECRET_LENGTH == 10

\* Python's None, for a query or form parameter that is absent.
None == "<None>"
\* Python truthiness of an optional string: `not x` holds for None and "".
Falsy(x) == x = None \/ x = ""

(***************************************************************************)
(* Library functions, tabulated on the inputs the model draws.  The rows   *)
(* are the values CPython computes.                                        *)
(***************************************************************************)
\* urllib.parse.urlparse(uri): the (scheme, netloc) it returns.  urlparse
\* lower-cases the scheme itself.
UrlParse(uri) ==
    CASE uri = "https://cb"                     -> [scheme |-> "https", netloc |-> "cb"]
      [] uri = "http://localhost:3000/callback" -> [scheme |-> "http", netloc |-> "localhost:3000"]
      [] uri = "javascript:alert(1)"            -> [scheme |-> "javascript", netloc |-> ""]
      [] uri = "data:text/html,x"               -> [scheme |-> "data", netloc |-> ""]
      [] uri = "ftp://host/x"                   -> [scheme |-> "ftp", netloc |-> "host"]
      [] uri = "cb"                             -> [scheme |-> "", netloc |-> ""]
      [] uri = "//cb/path"                      -> [scheme |-> "", netloc |-> "cb"]
      [] uri = "https:///path"                  -> [scheme |-> "https", netloc |-> ""]

\* str.lower() on a scheme.  urlparse has lower-cased the scheme already, so
\* the first row is never used by the rows above.
Lower(s) ==
    CASE s = "HTTPS"      -> "https"
      [] s = "https"      -> "https"
      [] s = "http"       -> "http"
      [] s = "javascript" -> "javascript"
      [] s = "data"       -> "data"
      [] s = "ftp"        -> "ftp"
      [] s = ""           -> ""

\* base64.urlsafe_b64encode(hashlib.sha256(v.encode()).digest()).decode():
\* 44 characters, the last one the padding "=".
Sha256B64(v) ==
    CASE v = "verifier-one" -> "oWznZcvhw3QgQqHwlFZIHuizYuQqAUxGDf_q-c8CmY4="
      [] v = "verifier-two" -> "-OZP4bJHaGpD8aBOjIhyUGreuIdXfZtWCXsxKSQUzuw="

\* str.rstrip("=") on the encodings above.
RStripPad(s) ==
    CASE s = "oWznZcvhw3QgQqHwlFZIHuizYuQqAUxGDf_q-c8CmY4=" -> "oWznZcvhw3QgQqHwlFZIHuizYuQqAUxGDf_q-c8CmY4"
      [] s = "-OZP4bJHaGpD8aBOjIhyUGreuIdXfZtWCXsxKSQUzuw=" -> "-OZP4bJHaGpD8aBOjIhyUGreuIdXfZtWCXsxKSQUzuw"

\* secrets.token_urlsafe(32): the n-th value it returns.  256 random bits:
\* the model takes every value to be new.
TokenUrlsafe(n) == "code-" \o ToString(n)

(***************************************************************************)
(* The token codec, as far as the endpoints use it.  A signed token is the *)
(* record of its claims together with the key that signed it; the          *)
(* encrypted credential is the plaintext under the Fernet key.             *)
(***************************************************************************)
\* get_jwt_secret_key(): the process-wide signing secret.
JwtSecretKey == "server-secret"

\* encrypt_token(token)
EncryptToken(token) == [fernet_key |-> JwtSecretKey, plaintext |-> token]

\* create_jwt(deapi_token, client_id) at time t
CreateJwt(deapi_token, client_id, t) ==
    [ signed_with     |-> JwtSecretKey,
      sub             |-> client_id,
      aud             |-> "deapi-mcp-api",
      exp             |-> t + JWT_EXPIRATION_SECONDS,
      iat             |-> t,
      deapi_token_enc |-> EncryptToken(deapi_token),
      token_type      |-> None ]

\* create_refresh_token(deapi_token, client_id) at time t
CreateRefreshToken(deapi_token, client_id, t) ==
    [ signed_with     |-> JwtSecretKey,
      sub             |-> client_id,
      aud             |-> "deapi-mcp-refresh",
      exp             |-> t + REFRESH_TOKEN_EXPIRATION_SECONDS,
      iat             |-> t,
      deapi_token_enc |-> EncryptToken(deapi_token),
      token_type      |-> "refresh" ]

\* A defect: a refresh token is honoured only for the lifetime of an access
\* token.
DecodeRefreshTokenOkShortLived(token, t) ==
    /\ token.signed_with = JwtSecretKey
    /\ token.iat + JWT_EXPIRATION_SECONDS > t
    /\ token.aud = "deapi-mcp-refresh"
    /\ token.token_type = "refresh"

\* decode_refresh_token(token) at time t: TRUE when it returns the payload.
\* jwt.decode checks the signature, exp (expired once exp <= now) and aud.
DecodeRefreshTokenOk(token, t) ==
    /\ token.signed_with = JwtSecretKey
    /\ token.exp > t
    /\ token.aud = "deapi-mcp-refresh"
    /\ token.token_type = "refresh"

\* payload.get("deapi_token_enc") of a payload without that claim: None.
NoClaim == [fernet_key |-> None, plaintext |-> None]

\* A defect: the ciphertext is opened whatever key made it.
DecryptOkAnyKey(encrypted_token) == TRUE

\* decrypt_token(encrypted_token): TRUE when it returns, FALSE when it raises.
\* Fernet authenticates the ciphertext with the key derived from the secret.
DecryptOk(encrypted_token) == encrypted_token.fernet_key = JwtSecretKey

\* A defect: the claim is handed on as it is, still encrypted.
DecryptTokenSkipped(encrypted_token) == encrypted_token.fernet_key

\* decrypt_token(encrypted_token), when it returns
DecryptToken(encrypted_token) == encrypted_token.plaintext

\* A defect: the audience is not checked.
DecodeJwtOkAnyAudience(token, t) ==
    /\ token.signed_with = JwtSecretKey
    /\ token.exp > t

\* decode_jwt(token) at time t: TRUE when it returns the payload.  jwt.decode
\* checks the signature, exp (expired once exp <= now) and aud.
DecodeJwtOk(token, t) ==
    /\ token.signed_with = JwtSecretKey
    /\ token.exp > t
    /\ token.aud = "deapi-mcp-api"

(***************************************************************************)
(* Bearer strings.  A string that jwt.encode returned has three segments   *)
(* and carries its token; any other string carries none and fails every    *)
(* jwt.decode.                                                             *)
(***************************************************************************)
\* str.count(".") on the strings the model draws.
CountDots(text) ==
    CASE text = "0123456789"       -> 0
      [] text = "9876543210-other" -> 0
      [] text = "123456789"        -> 0
      [] text = ""                 -> 0
      [] text = "deapi.token"      -> 1
      [] text = "not.a.jwt"        -> 2
      [] text = "a.b.c.d"          -> 3

\* the string jwt.encode returned for token
BearerOfToken(token) == [dots |-> 2, text |-> "", jwt |-> <<token>>]
\* any other string
BearerOfText(text) == [dots |-> CountDots(text), text |-> text, jwt |-> << >>]

\* is_jwt(token)
IsJwt(bearer) == bearer.dots = 2

(***************************************************************************)
(* The Request Authenticator.  The result of verify_token is the           *)
(* AccessToken it returns (a sequence of length 0 for None) and the value  *)
(* it has set in current_deapi_token (a sequence of length 0 when it has   *)
(* set none).                                                              *)
(***************************************************************************)
\* verify_token: `return None`
NoCredential == [access |-> << >>, bound |-> << >>]

\* verify_token: current_deapi_token.set(deapi_token), return AccessToken(...)
Authenticated(deapi_token) ==
    [access |-> <<[client_id |-> "deapi-mcp", token |-> deapi_token, scopes |-> << >>]>>,
     bound  |-> <<deapi_token>>]

\* DeapiAuthProvider.verify_token(token) at time t; token is a sequence of
\* length 0 for None
VerifyToken(token, t) ==
    IF token = << >>
    THEN NoCredential
    ELSE LET bearer == token[1] IN
    IF ~IsJwt(bearer)
    THEN Authenticated(bearer.text)
    ELSE IF bearer.jwt = << >> \/ ~DecodeJwtOk(bearer.jwt[1], t)
    THEN NoCredential
    ELSE IF bearer.jwt[1].deapi_token_enc = NoClaim
    THEN NoCredential
    ELSE IF ~DecryptOk(bearer.jwt[1].deapi_token_enc)
    THEN NoCredential
    ELSE Authenticated(DecryptToken(bearer.jwt[1].deapi_token_enc))

(***************************************************************************)
(* The authorization code store: a dict from code to record.               *)
(***************************************************************************)
\* A defect: the delete is left out.
DeleteCodeForgotten(codes, code) == codes

\* del _authorization_codes[code]
DeleteCode(codes, code) == [c \in DOMAIN codes \ {code} |-> codes[c]]

\* _authorization_codes[auth_code] = record
StoreCode(codes, auth_code, record) ==
    [c \in DOMAIN codes \cup {auth_code} |->
        IF c = auth_code THEN record ELSE codes[c]]

\* A defect: the expiry comparison never fires.
IsExpiredNever(t, data) == FALSE

\* now > data["expires_at"]
IsExpired(t, data) == t > data.expires_at

\* _prune_expired_authorization_codes()
PruneExpired(codes, t) ==
    [c \in {d \in DOMAIN codes : ~IsExpired(t, codes[d])} |-> codes[c]]

\* A defect: the scheme is checked, the host is not.
ValidateRedirectUriSchemeOnly(redirect_uri) ==
    Lower(UrlParse(redirect_uri).scheme) \in ALLOWED_REDIRECT_SCHEMES

\* _validate_redirect_uri(redirect_uri)
ValidateRedirectUri(redirect_uri) ==
    LET parsed == UrlParse(redirect_uri)
    IN  Lower(parsed.scheme) \in ALLOWED_REDIRECT_SCHEMES /\ parsed.netloc # ""

\* A defect: the padding of the encoding is kept.
VerifyPkceChallengePadded(code_verifier, code_challenge) ==
    Sha256B64(code_verifier) = code_challenge

\* verify_pkce_challenge(code_verifier, code_challenge)
VerifyPkceChallenge(code_verifier, code_challenge) ==
    RStripPad(Sha256B64(code_verifier)) = code_challenge

(***************************************************************************)
(* Responses.                                                              *)
(***************************************************************************)
\* JSONResponse({"error": error, "error_description": description}, status)
JsonError(status, error, description) ==
    [kind |-> "json", status |-> status, error |-> error,
     error_description |-> description]

\* RedirectResponse(f"{redirect_uri}?{urlencode(params)}") where params holds
\* error and error_description, and state when state is truthy
RedirectError(redirect_uri, error, state) ==
    [kind |-> "redirect", uri |-> redirect_uri, error |-> error, code |-> None,
     state |-> IF Falsy(state) THEN None ELSE state]

\* RedirectResponse(f"{redirect_uri}?{urlencode(params)}") where params holds
\* code, and state when state is truthy
RedirectCode(redirect_uri, auth_code, state) ==
    [kind |-> "redirect", uri |-> redirect_uri, error |-> None, code |-> auth_code,
     state |-> IF Falsy(state) THEN None ELSE state]

\* JSONResponse({"access_token", "token_type", "expires_in", "refresh_token"})
TokenResponse(access_token, refresh_token) ==
    [kind |-> "tokens", status |-> 200, access_token |-> access_token,
     token_type |-> "Bearer", expires_in |-> JWT_EXPIRATION_SECONDS,
     refresh_token |-> refresh_token]

(***************************************************************************)
(* GET /authorize.  query holds the six query parameters; codes is the     *)
(* store, t the clock and auth_code the value secrets.token_urlsafe would  *)
(* return.  The result is the response and the store left behind.          *)
(***************************************************************************)
\* A defect: the capacity comparison is > where the source has >=.
AuthorizeIssueOffByOne(query, codes, t, auth_code) ==
    LET pruned == PruneExpired(codes, t)
    IN  IF Cardinality(DOMAIN pruned) > AUTHORIZATION_CODE_MAX_ENTRIES
        THEN [resp  |-> RedirectError(query.redirect_uri, "server_error", query.state),
              codes |-> pruned]
        ELSE [resp  |-> RedirectCode(query.redirect_uri, auth_code, query.state),
              codes |-> StoreCode(pruned, auth_code,
                           [client_id      |-> query.client_id,
                            redirect_uri   |-> query.redirect_uri,
                            code_challenge |-> query.code_challenge,
                            expires_at     |-> t + AUTHORIZATION_CODE_EXPIRATION_SECONDS,
                            state          |-> query.state])]

\* authorize_endpoint, from the prune on: the request has passed validation
AuthorizeIssue(query, codes, t, auth_code) ==
    LET pruned == PruneExpired(codes, t)
    IN  IF Cardinality(DOMAIN pruned) >= AUTHORIZATION_CODE_MAX_ENTRIES
        THEN [resp  |-> RedirectError(query.redirect_uri, "server_error", query.state),
              codes |-> pruned]
        ELSE [resp  |-> RedirectCode(query.redirect_uri, auth_code, query.state),
              codes |-> StoreCode(pruned, auth_code,
                           [client_id      |-> query.client_id,
                            redirect_uri   |-> query.redirect_uri,
                            code_challenge |-> query.code_challenge,
                            expires_at     |-> t + AUTHORIZATION_CODE_EXPIRATION_SECONDS,
                            state          |-> query.state])]

\* authorize_endpoint
AuthorizeEndpoint(query, codes, t, auth_code) ==
    IF Falsy(query.client_id) \/ query.client_id # DEFAULT_CLIENT_ID
    THEN IF ~Falsy(query.redirect_uri)
         THEN [resp  |-> RedirectError(query.redirect_uri, "unauthorized_client", query.state),
               codes |-> codes]
         ELSE [resp  |-> JsonError(401, "unauthorized_client", None),
               codes |-> codes]
    ELSE IF Falsy(query.redirect_uri)
    THEN [resp  |-> JsonError(400, "invalid_request", "redirect_uri is required"),
          codes |-> codes]
    ELSE IF ~ValidateRedirectUri(query.redirect_uri)
    THEN [resp  |-> JsonError(400, "invalid_request",
                              "redirect_uri must use http or https scheme"),
          codes |-> codes]
    ELSE IF query.response_type # "code"
    THEN [resp  |-> RedirectError(query.redirect_uri, "unsupported_response_type", query.state),
          codes |-> codes]
    ELSE IF Falsy(query.code_challenge) \/ query.code_challenge_method # "S256"
    THEN [resp  |-> RedirectError(query.redirect_uri, "invalid_request", query.state),
          codes |-> codes]
    ELSE AuthorizeIssue(query, codes, t, auth_code)

(***************************************************************************)
(* POST /token, after `await request.form()` has returned form.  The       *)
(* result is the response, the store left behind and auth_data, the record *)
(* the lookup found (a sequence of length 0 or 1).                         *)
(***************************************************************************)
\* token_endpoint: create_jwt and create_refresh_token, then the token response.
\* Both calls sign and encrypt strings with the process key; no request makes
\* them raise, so the `except Exception` answer (500 server_error) is left out.
IssueTokens(deapi_token, client_id, t) ==
    TokenResponse(CreateJwt(deapi_token, client_id, t),
                  CreateRefreshToken(deapi_token, client_id, t))

\* token_endpoint, grant_type == "refresh_token"
RefreshTokenGrant(form, t) ==
    IF form.refresh_token = << >>
    THEN JsonError(400, "invalid_request", "refresh_token is required")
    ELSE IF ~DecodeRefreshTokenOk(form.refresh_token[1], t)
    THEN JsonError(400, "invalid_grant", "Invalid or expired refresh token")
    ELSE IF form.refresh_token[1].deapi_token_enc = NoClaim
    THEN JsonError(400, "invalid_grant", "Invalid refresh token")
    ELSE IF ~DecryptOk(form.refresh_token[1].deapi_token_enc)
    THEN JsonError(400, "invalid_grant", "Invalid refresh token")
    ELSE IssueTokens(DecryptToken(form.refresh_token[1].deapi_token_enc), form.client_id, t)

\* A defect: only a missing client_secret is refused.
ClientCredentialsGrantAnyLength(form, t) ==
    IF Falsy(form.client_secret)
    THEN JsonError(401, "invalid_client",
                   "client_secret is required (your Deapi API token)")
    ELSE IssueTokens(form.client_secret, form.client_id, t)

\* token_endpoint, grant_type == "client_credentials"
ClientCredentialsGrant(form, t) ==
    IF Falsy(form.client_secret)
    THEN JsonError(401, "invalid_client",
                   "client_secret is required (your Deapi API token)")
    ELSE IF Len(form.client_secret) < MIN_CLIENT_SECRET_LENGTH
    THEN JsonError(401, "invalid_client",
                   "client_secret appears invalid (Deapi API token expected)")
    ELSE IssueTokens(form.client_secret, form.client_id, t)

\* A defect: the length comparison is <= where the source has <.
AuthorizationCodeTokensOffByOne(form, t) ==
    IF Falsy(form.client_secret) \/ Len(form.client_secret) <= MIN_CLIENT_SECRET_LENGTH
    THEN JsonError(401, "invalid_client", "Invalid client_secret (Deapi token)")
    ELSE IssueTokens(form.client_secret, form.client_id, t)

\* token_endpoint, grant_type == "authorization_code", after the code has been
\* deleted: the client_secret check and the token pair
AuthorizationCodeTokens(form, t) ==
    IF Falsy(form.client_secret) \/ Len(form.client_secret) < MIN_CLIENT_SECRET_LENGTH
    THEN JsonError(401, "invalid_client", "Invalid client_secret (Deapi token)")
    ELSE IssueTokens(form.client_secret, form.client_id, t)

\* A defect: a missing code_verifier is answered like a wrong one.
CodeVerifierRequiredAsGrant ==
    JsonError(400, "invalid_grant", "code_verifier is required")

\* token_endpoint: the response to an authorization_code request that carries
\* no code_verifier
CodeVerifierRequired ==
    JsonError(400, "invalid_request", "code_verifier is required")

\* A defect: the code is deleted before the code_verifier is verified.
AuthorizationCodeGrantBurnsCode(form, codes, t) ==
    IF Falsy(form.code)
    THEN [resp  |-> JsonError(400, "invalid_request", "code is required"),
          codes |-> codes, auth_data |-> << >>]
    ELSE IF form.code \notin DOMAIN codes
    THEN [resp  |-> JsonError(400, "invalid_grant", "Invalid authorization code"),
          codes |-> codes, auth_data |-> << >>]
    ELSE LET auth_data == codes[form.code] IN
    IF IsExpired(t, auth_data)
    THEN [resp  |-> JsonError(400, "invalid_grant", "Authorization code expired"),
          codes |-> DeleteCode(codes, form.code), auth_data |-> <<auth_data>>]
    ELSE IF form.redirect_uri # auth_data.redirect_uri
    THEN [resp  |-> JsonError(400, "invalid_grant", "redirect_uri mismatch"),
          codes |-> codes, auth_data |-> <<auth_data>>]
    ELSE IF Falsy(form.code_verifier)
    THEN [resp  |-> CodeVerifierRequired,
          codes |-> codes, auth_data |-> <<auth_data>>]
    ELSE IF ~VerifyPkceChallenge(form.code_verifier, auth_data.code_challenge)
    THEN [resp  |-> JsonError(400, "invalid_grant", "Invalid code_verifier"),
          codes |-> DeleteCode(codes, form.code), auth_data |-> <<auth_data>>]
    ELSE [resp  |-> AuthorizationCodeTokens(form, t),
          codes |-> DeleteCode(codes, form.code), auth_data |-> <<auth_data>>]

\* token_endpoint, grant_type == "authorization_code"
AuthorizationCodeGrant(form, codes, t) ==
    IF Falsy(form.code)
    THEN [resp  |-> JsonError(400, "invalid_request", "code is required"),
          codes |-> codes, auth_data |-> << >>]
    ELSE IF form.code \notin DOMAIN codes
    THEN [resp  |-> JsonError(400, "invalid_grant", "Invalid authorization code"),
          codes |-> codes, auth_data |-> << >>]
    ELSE LET auth_data == codes[form.code] IN
    IF IsExpired(t, auth_data)
    THEN [resp  |-> JsonError(400, "invalid_grant", "Authorization code expired"),
          codes |-> DeleteCode(codes, form.code), auth_data |-> <<auth_data>>]
    ELSE IF form.redirect_uri # auth_data.redirect_uri
    THEN [resp  |-> JsonError(400, "invalid_grant", "redirect_uri mismatch"),
          codes |-> codes, auth_data |-> <<auth_data>>]
    ELSE IF Falsy(form.code_verifier)
    THEN [resp  |-> CodeVerifierRequired,
          codes |-> codes, auth_data |-> <<auth_data>>]
    ELSE IF ~VerifyPkceChallenge(form.code_verifier, auth_data.code_challenge)
    THEN [resp  |-> JsonError(400, "invalid_grant", "Invalid code_verifier"),
          codes |-> codes, auth_data |-> <<auth_data>>]
    ELSE [resp  |-> AuthorizationCodeTokens(form, t),
          codes |-> DeleteCode(codes, form.code), auth_data |-> <<auth_data>>]

\* token_endpoint
TokenEndpoint(form, codes, t) ==
    IF form.grant_type \notin {"authorization_code", "client_credentials", "refresh_token"}
    THEN [resp  |-> JsonError(400, "unsupported_grant_type",
              "Supported grant types: authorization_code, client_credentials, refresh_token"),
          codes |-> codes, auth_data |-> << >>]
    ELSE IF Falsy(form.client_id) \/ form.client_id # DEFAULT_CLIENT_ID
    THEN [resp  |-> JsonError(401, "invalid_client", "Invalid client_id. Use 'deapi-mcp'"),
          codes |-> codes, auth_data |-> << >>]
    ELSE IF form.grant_type = "refresh_token"
    THEN [resp  |-> RefreshTokenGrant(form, t), codes |-> codes, auth_data |-> << >>]
    ELSE IF form.grant_type = "authorization_code"
    THEN AuthorizationCodeGrant(form, codes, t)
    ELSE [resp  |-> ClientCredentialsGrant(form, t), codes |-> codes, auth_data |-> << >>]

(***************************************************************************)
(* The inputs the model draws.                                             *)
(***************************************************************************)
Requests == 1 .. MaxRequests
AllCodes == {TokenUrlsafe(n) : n \in 1 .. MaxCodes}

GoodVerifier == "verifier-one"
GoodChallenge == RStripPad(Sha256B64(GoodVerifier))
\* The same digest with its padding kept: 44 characters.
PaddedChallenge == Sha256B64(GoodVerifier)
\* Nine and ten characters: the two sides of the length check.
ShortSecret == "123456789"
LongSecret == "0123456789"

ValidRedirectUris == {"https://cb", "http://localhost:3000/callback"}
\* The javascript, data and ftp schemes, no scheme (without and with a host),
\* and the https scheme with an empty host.
InvalidRedirectUris ==
    {"javascript:alert(1)", "data:text/html,x", "ftp://host/x", "cb", "//cb/path",
     "https:///path"}

Query(client_id, redirect_uri, state, code_challenge, method, response_type) ==
    [client_id |-> client_id, redirect_uri |-> redirect_uri, state |-> state,
     code_challenge |-> code_challenge, code_challenge_method |-> method,
     response_type |-> response_type]

\* Every redirect_uri from the supported client and from another one, the
\* rest of the request valid.
QueriesByRedirect ==
    {Query(c, u, "xyz", GoodChallenge, "S256", "code") :
        c \in {DEFAULT_CLIENT_ID, "evil-client"},
        u \in {"https://cb"} \cup InvalidRedirectUris \cup {None, ""}}
\* No client_id.
QueriesNoClient ==
    {Query(None, u, "xyz", GoodChallenge, "S256", "code") :
        u \in {"https://cb", "javascript:alert(1)", None}}
\* No state parameter, and a challenge that kept the padding of its encoding.
QueriesNoState ==
    {Query(c, u, None, PaddedChallenge, "S256", "code") :
        c \in {DEFAULT_CLIENT_ID, "evil-client"},
        u \in {"http://localhost:3000/callback", "javascript:alert(1)"}}
\* A validated redirect_uri with every response_type and PKCE parameter.
QueriesByPkce ==
    {Query(DEFAULT_CLIENT_ID, "https://cb", s, ch, m, rt) :
        s \in {"xyz"},
        ch \in {GoodChallenge, None, ""},
        m \in {"S256", "plain"},
        rt \in {"code", "token"}}
\* A rejected redirect_uri with every combination of the other parameters.
QueriesBadRedirect ==
    {Query(DEFAULT_CLIENT_ID, "javascript:alert(1)", s, ch, m, rt) :
        s \in {"xyz", None},
        ch \in {GoodChallenge, None},
        m \in {"S256", "plain"},
        rt \in {"code", "token"}}
Queries ==
    QueriesByRedirect \cup QueriesNoClient \cup QueriesNoState \cup QueriesByPkce
        \cup QueriesBadRedirect

Form(grant_type, client_id, client_secret, code, code_verifier, redirect_uri, refresh_token) ==
    [grant_type |-> grant_type, client_id |-> client_id, client_secret |-> client_secret,
     code |-> code, code_verifier |-> code_verifier, redirect_uri |-> redirect_uri,
     refresh_token |-> refresh_token]

\* authorization_code requests of the supported client: every code with every
\* verifier and redirect_uri, and every client_secret where the request passes
\* the checks on the code.
FormsAuthorizationCode ==
    {Form("authorization_code", DEFAULT_CLIENT_ID, LongSecret, c, v, u, << >>) :
        c \in AllCodes,
        v \in {GoodVerifier, "verifier-two", None},
        u \in ValidRedirectUris}
    \cup {Form("authorization_code", DEFAULT_CLIENT_ID, LongSecret, c, GoodVerifier, None, << >>) :
        c \in AllCodes}
    \cup {Form("authorization_code", DEFAULT_CLIENT_ID, cs, c, GoodVerifier, "https://cb", << >>) :
        cs \in {ShortSecret, None}, c \in AllCodes}
    \cup {Form("authorization_code", DEFAULT_CLIENT_ID, LongSecret, c, GoodVerifier, "https://cb", << >>) :
        c \in {None, "", "forged-code"}}
\* Requests with another grant_type or client_id and the remaining fields valid.
FormsRejectedEarly ==
    {Form(g, cid, LongSecret, c, GoodVerifier, "https://cb", << >>) :
        g \in {"authorization_code", "password", None},
        cid \in {DEFAULT_CLIENT_ID, "other-client", None},
        c \in {TokenUrlsafe(1)}}
FormsClientCredentials ==
    {Form("client_credentials", DEFAULT_CLIENT_ID, cs, c, None, None, << >>) :
        cs \in {None, "", ShortSecret, LongSecret}, c \in {TokenUrlsafe(1)}}
FormsRefreshToken ==
    {Form("refresh_token", DEFAULT_CLIENT_ID, None, None, None, None, rt) :
        rt \in {<< >>,
                <<CreateRefreshToken(LongSecret, DEFAULT_CLIENT_ID, 0)>>,
                <<CreateJwt(LongSecret, DEFAULT_CLIENT_ID, 0)>>}}
Forms == FormsAuthorizationCode \cup FormsRejectedEarly \cup FormsClientCredentials
            \cup FormsRefreshToken

\* The one request every party of a race sends: valid for the code it names.
RaceQuery == Query(DEFAULT_CLIENT_ID, "https://cb", "xyz", GoodChallenge, "S256", "code")
RaceForms ==
    {Form("authorization_code", DEFAULT_CLIENT_ID, LongSecret, c, GoodVerifier, "https://cb", << >>) :
        c \in AllCodes}

\* The tool calls in progress together.
MaxCalls == 2
Calls == 1 .. MaxCalls
\* A call before its request has arrived: a context of its own in which
\* current_deapi_token has its default.
IdleCall ==
    [pc |-> "idle", context |-> << >>, resolved |-> << >>, api_token |-> << >>,
     sent |-> << >>]

\* No polling session has begun.
NoResult == [kind |-> "none"]
IdlePoll ==
    [pc |-> "idle", job_type |-> None, attempt |-> 0, current_delay |-> 0,
     elapsed |-> 0, clock |-> 0, result |-> NoResult,
     started |-> << >>, outcomes |-> << >>, sleeps |-> << >>,
     ctx |-> FALSE, last_progress |-> None, notes |-> << >>]

\* The value of a variable that no step has written yet.
NotBegun == [begun |-> FALSE]
\* No tool has been called: its polling session has not begun either.
IdleTool == [pc |-> "idle", job_type |-> None, session |-> IdlePoll, result |-> NoResult]
\* The tools/list requests that may arrive.
MaxListRequests == 3
ListRequests == 1 .. MaxListRequests
\* A tools/list request that has not arrived.
IdleList == [pc |-> "idle", arrived |-> 0, found |-> "none", waited |-> FALSE,
             rechecked |-> 0, seen |-> 0, fetched |-> FALSE, returned |-> << >>]
\* _cache = _ModelCache() at import, with the clock time.monotonic(), no
\* request and no fetch yet.  enrichments is 0 for the empty dict and n for
\* the dict built by the n-th fetch.
IdleCache == [clock |-> 0, last_fetched |-> 0, enrichments |-> 0, lock |-> 0,
              waiters |-> << >>, requests |-> [r \in ListRequests |-> IdleList],
              fetches |-> << >>]
\* Two polling sessions that have not begun.
IdleTwin == [plain |-> IdlePoll, observed |-> IdlePoll]

(***************************************************************************)
(* State.                                                                  *)
(***************************************************************************)
VARIABLES
    now,                  \* time.time(), in seconds
    authorization_codes,  \* _authorization_codes
    minted,               \* how many codes secrets.token_urlsafe has returned
    pc,                   \* where each token request is: "idle" or "await_form"
    body,                 \* what each request in flight sent: << >> while only
                          \* request.form() knows it, <<form>> when the model fixes it
    last,                 \* the output of the step just taken: the response sent,
                          \* by which endpoint and (for /token) the grant_type and
                          \* code of the request; op is "none" when the step sent
                          \* nothing
    granted,              \* history: per code, how many token pairs it has earned
    rivals,               \* history: the requests in flight whose body has already
                          \* earned another request a token pair
    lost,                 \* history: the response each such request then received
    session,              \* history: the token chain a client holds (a sequence
                          \* of length 0 or 1): the credential it began with, the
                          \* first and the latest token pair, the number of refresh
                          \* grants behind the latest pair, and how often the first
                          \* refresh token has been redeemed
    calls,                \* per tool call in progress: where it is, the value of
                          \* current_deapi_token in its context, the credential
                          \* verify_token resolved for it, the api_token of its
                          \* DeapiClient and the credential of the Authorization
                          \* header it last sent upstream
    tool,                 \* one tool call: where the tool body is, its polling
                          \* session and the dict it has returned
    mw,                   \* the model cache of the middleware, its lock, the
                          \* monotonic clock and the tools/list requests
    twin,                 \* two polling sessions fed the same answers and clock
                          \* readings: one called without ctx, one with
    poll                  \* one polling session: where poll_until_complete is,
                          \* its locals (job_type, attempt, current_delay,
                          \* elapsed), the time since start_time, how it ended,
                          \* and the history of the elapsed time at which each
                          \* status check started, each outcome and each sleep

\* The variables of the tool calls and of the polling session.
restVars == <<tool, twin, mw>>

\* The tool call, the two sessions and the cache: as constructed until their
\* first step.
Tool == IF tool = NotBegun THEN IdleTool ELSE tool
Twin == IF twin = NotBegun THEN IdleTwin ELSE twin
Cache == IF mw = NotBegun THEN IdleCache ELSE mw
laterVars == <<calls, poll, restVars>>
\* The variables outside the authorization code flow.
sideVars == <<session, laterVars>>

vars == <<now, authorization_codes, minted, pc, body, last, granted, rivals, lost,
          sideVars>>

NoResponse == [kind |-> "none"]
NoOutput == [op |-> "none", grant_type |-> None, code |-> None, resp |-> NoResponse]

Init ==
    /\ now = 0
    /\ authorization_codes = << >>
    /\ minted = 0
    /\ pc = [r \in Requests |-> "idle"]
    /\ body = [r \in Requests |-> << >>]
    /\ last = NoOutput
    /\ granted = << >>
    /\ rivals = {}
    /\ lost = << >>
    /\ session = << >>
    /\ calls = [c \in Calls |-> IdleCall]
    /\ poll = IdlePoll
    /\ tool = NotBegun
    /\ twin = NotBegun
    /\ mw = NotBegun

\* The count of token pairs a code has earned: 0, 1 or 2 for "more than one".
Granted(code) == IF code \in DOMAIN granted THEN granted[code] ELSE 0

\* A request that reaches the authorization_code handler: it has passed the
\* grant_type and client_id checks every grant shares.
InAuthorizationCodeGrant(form) ==
    /\ form.grant_type = "authorization_code"
    /\ form.client_id = DEFAULT_CLIENT_ID

(***************************************************************************)
(* Actions.                                                                *)
(***************************************************************************)
\* time passes
Tick ==
    /\ now < MaxTicks * TickStep
    /\ now' = now + TickStep
    /\ last' = NoOutput
    /\ UNCHANGED <<authorization_codes, minted, pc, body, granted, rivals, lost>>
    /\ UNCHANGED sideVars

\* authorize_endpoint serves one request with the given query parameters
AuthorizeWith(query) ==
    /\ LET auth_code == TokenUrlsafe(minted + 1)
           result == AuthorizeEndpoint(query, authorization_codes, now, auth_code)
           issued == auth_code \in DOMAIN result.codes
       IN  /\ issued => minted < MaxCodes
           /\ authorization_codes' = result.codes
           /\ minted' = IF issued THEN minted + 1 ELSE minted
           /\ granted' = IF issued THEN StoreCode(granted, auth_code, 0) ELSE granted
           /\ last' = [op |-> "authorize", grant_type |-> None, code |-> None,
                       resp |-> result.resp]
    /\ UNCHANGED <<now, pc, body, rivals, lost>>
    /\ UNCHANGED sideVars

Authorize == \E query \in Queries : AuthorizeWith(query)

\* a POST /token arrives and token_endpoint suspends in `await request.form()`
TokenArrive(r) ==
    /\ pc[r] = "idle"
    /\ pc' = [pc EXCEPT ![r] = "await_form"]
    /\ body' = [body EXCEPT ![r] = << >>]
    /\ lost' = [q \in DOMAIN lost \ {r} |-> lost[q]]
    /\ last' = NoOutput
    /\ UNCHANGED <<now, authorization_codes, minted, granted, rivals>>
    /\ UNCHANGED sideVars

\* the same, for a request whose body the model fixes on arrival
TokenArriveWith(r, form) ==
    /\ pc[r] = "idle"
    /\ pc' = [pc EXCEPT ![r] = "await_form"]
    /\ body' = [body EXCEPT ![r] = <<form>>]
    /\ lost' = [q \in DOMAIN lost \ {r} |-> lost[q]]
    /\ last' = NoOutput
    /\ UNCHANGED <<now, authorization_codes, minted, granted, rivals>>
    /\ UNCHANGED sideVars

\* request.form() returns form and token_endpoint runs to its return
TokenHandleWith(r, form) ==
    /\ pc[r] = "await_form"
    /\ body[r] \in {<< >>, <<form>>}
    /\ LET result == TokenEndpoint(form, authorization_codes, now)
           won == /\ form.grant_type = "authorization_code"
                  /\ result.resp.kind = "tokens"
       IN  /\ authorization_codes' = result.codes
           /\ last' = [op |-> "token", grant_type |-> form.grant_type,
                       code |-> form.code, resp |-> result.resp]
           /\ granted' = IF won
                         THEN StoreCode(granted, form.code,
                                  IF Granted(form.code) = 0 THEN 1 ELSE 2)
                         ELSE granted
           /\ rivals' = IF won
                        THEN (rivals \ {r}) \cup
                                 {q \in Requests \ {r} :
                                     pc[q] = "await_form" /\ body[q] = <<form>>}
                        ELSE rivals \ {r}
           /\ lost' = IF r \in rivals THEN StoreCode(lost, r, result.resp) ELSE lost
    /\ pc' = [pc EXCEPT ![r] = "idle"]
    /\ body' = [body EXCEPT ![r] = << >>]
    /\ UNCHANGED <<now, minted>>
    /\ UNCHANGED sideVars

TokenHandle(r) ==
    \E form \in (IF body[r] = << >> THEN Forms ELSE {body[r][1]}) :
        TokenHandleWith(r, form)

\* Under Spec one token request is in flight at a time: token_endpoint touches
\* the store in one step, so requests in flight together add no behaviour of
\* the store or of the responses.  SpecRace below has them race.
FlowRequests == {r \in Requests : \A q \in Requests : r <= q}

Next ==
    \/ Tick
    \/ Authorize
    \/ \E r \in FlowRequests : TokenArrive(r)
    \/ \E r \in FlowRequests : TokenHandle(r)

Spec == Init /\ [][Next]_vars

\* Requests that all carry the same valid fields race for one code.
NextRace ==
    \/ Tick
    \/ AuthorizeWith(RaceQuery)
    \/ \E r \in Requests : \E form \in RaceForms : TokenArriveWith(r, form)
    \/ \E r \in Requests : TokenHandle(r)

SpecRace == Init /\ [][NextRace]_vars

(***************************************************************************)
(* Token chains.  A client obtains a token pair from the client_credentials*)
(* or the authorization_code grant, redeems refresh tokens for further     *)
(* pairs, and presents bearer strings to the Request Authenticator, while  *)
(* the clock passes the expiry of the tokens.                              *)
(***************************************************************************)
\* The longest chain of refresh grants the client follows.
MaxHops == 2

\* The instants the clock visits: the second before and the second of the
\* expiry of a token issued at 0 (jwt.decode rejects a token from exp on).
TokenInstants ==
    {0, JWT_EXPIRATION_SECONDS - 1, JWT_EXPIRATION_SECONDS,
     REFRESH_TOKEN_EXPIRATION_SECONDS - 1, REFRESH_TOKEN_EXPIRATION_SECONDS}

\* Upstream credentials: both pass the length check.
Credentials == {LongSecret, "9876543210-other"}

\* Tokens the server has not issued.  FarFuture is an exp no instant reaches.
FarFuture == 4 * REFRESH_TOKEN_EXPIRATION_SECONDS
Token(signed_with, aud, deapi_token_enc, token_type) ==
    [ signed_with     |-> signed_with,
      sub             |-> DEFAULT_CLIENT_ID,
      aud             |-> aud,
      exp             |-> FarFuture,
      iat             |-> 0,
      deapi_token_enc |-> deapi_token_enc,
      token_type      |-> token_type ]
\* Signed and encrypted with a key that is not the server's.
ForeignTokens ==
    {Token("attacker-key", aud[1], [fernet_key |-> "attacker-key", plaintext |-> LongSecret], aud[2]) :
        aud \in {<<"deapi-mcp-api", None>>, <<"deapi-mcp-refresh", "refresh">>}}
\* Signed with the server's key, but without the encrypted credential, with a
\* credential encrypted under another key, or for the refresh audience
\* without the token_type marker.
MalformedTokens ==
    {Token(JwtSecretKey, aud[1], enc, aud[2]) :
        aud \in {<<"deapi-mcp-api", None>>, <<"deapi-mcp-refresh", "refresh">>},
        enc \in {NoClaim, [fernet_key |-> "stale-key", plaintext |-> LongSecret]}}
    \cup {Token(JwtSecretKey, "deapi-mcp-refresh", EncryptToken(LongSecret), None)}
ForgedTokens == ForeignTokens \cup MalformedTokens

\* Bearer strings that are no token: credentials, the empty string, and
\* strings with one, two and three dots.
PlainTexts == Credentials \cup {"", "deapi.token", "not.a.jwt", "a.b.c.d"}

\* The tokens the client holds.
SessionTokens ==
    IF session = << >>
    THEN {}
    ELSE {session[1].first.access, session[1].first.refresh,
          session[1].latest.access, session[1].latest.refresh}

\* The token requests the client sends.
TokenForms ==
    {Form("client_credentials", DEFAULT_CLIENT_ID, cs, None, None, None, << >>) :
        cs \in Credentials \cup {None, "", ShortSecret}}
    \cup {Form("authorization_code", DEFAULT_CLIENT_ID, cs, c, GoodVerifier, "https://cb", << >>) :
        cs \in Credentials \cup {None, ShortSecret}, c \in DOMAIN authorization_codes}
    \cup {Form("refresh_token", DEFAULT_CLIENT_ID, None, None, None, None, rt) :
        rt \in {<< >>} \cup {<<token>> : token \in SessionTokens \cup ForgedTokens}}

\* The bearer values verify_token receives: None, plain strings and tokens.
Bearers ==
    {<< >>}
    \cup {<<BearerOfText(text)>> : text \in PlainTexts}
    \cup {<<BearerOfToken(token)>> : token \in SessionTokens \cup ForgedTokens}

\* the clock moves to a later instant
TokenAdvance ==
    /\ \E t \in TokenInstants : t > now /\ now' = t
    /\ last' = NoOutput
    /\ UNCHANGED <<authorization_codes, minted, pc, body, granted, rivals, lost>>
    /\ UNCHANGED sideVars

\* The chain after a token request that returned the pair: a refresh grant
\* extends the chain of the token it redeemed, another grant begins a chain.
SessionAfter(form, pair) ==
    IF form.grant_type # "refresh_token"
    THEN <<[origin |-> form.client_secret, first |-> pair, latest |-> pair,
            hops |-> 0, replays |-> 0]>>
    ELSE IF form.refresh_token[1] = session[1].first.refresh
    THEN <<[session[1] EXCEPT !.latest = pair, !.hops = 1,
                              !.replays = IF @ = 0 THEN 1 ELSE 2]>>
    ELSE <<[session[1] EXCEPT !.latest = pair, !.hops = @ + 1]>>

\* token_endpoint serves one request of the client (the await included)
TokenGrantWith(form) ==
    /\ LET result == TokenEndpoint(form, authorization_codes, now)
           issued == result.resp.kind = "tokens"
       IN  /\ (issued /\ form.grant_type = "refresh_token" /\ session # << >>)
                 => (form.refresh_token[1] = session[1].first.refresh
                        \/ session[1].hops < MaxHops)
           /\ (issued /\ form.grant_type = "refresh_token") => session # << >>
           /\ authorization_codes' = result.codes
           /\ last' = [op |-> "token", grant_type |-> form.grant_type,
                       code |-> form.code, resp |-> result.resp]
           /\ session' = IF issued
                         THEN SessionAfter(form, [access  |-> result.resp.access_token,
                                                  refresh |-> result.resp.refresh_token])
                         ELSE session
    /\ UNCHANGED <<now, minted, pc, body, granted, rivals, lost>>
    /\ UNCHANGED laterVars

TokenGrant == \E form \in TokenForms : TokenGrantWith(form)

\* verify_token serves one bearer value
VerifyWith(token) ==
    /\ last' = [op |-> "verify", grant_type |-> None, code |-> None,
                resp |-> [kind |-> "verified", token |-> token,
                          result |-> VerifyToken(token, now)]]
    /\ UNCHANGED <<now, authorization_codes, minted, pc, body, granted, rivals, lost>>
    /\ UNCHANGED sideVars

Verify == \E token \in Bearers : VerifyWith(token)

\* authorize_endpoint serves the client, which asks for one code at a time
\* and only while it holds no tokens
TokenAuthorize ==
    /\ authorization_codes = << >>
    /\ session = << >>
    /\ AuthorizeWith(RaceQuery)

NextTokens ==
    \/ TokenAdvance
    \/ TokenAuthorize
    \/ TokenGrant
    \/ Verify

SpecTokens == Init /\ [][NextTokens]_vars

(***************************************************************************)
(* Tool calls.  Each inbound call runs as a task with a context of its own:*)
(* verify_token and the tool body of one call see the same                 *)
(* current_deapi_token, and ContextVar.set in one context changes no other.*)
(* The calls interleave wherever they await: between verify_token and the  *)
(* tool body, and at every upstream round trip.                            *)
(***************************************************************************)
\* A defect: the credential is kept in one module-level variable.
ContextSetShared(contexts, c, value) == [k \in DOMAIN contexts |-> <<value>>]

\* current_deapi_token.set(value) in the context of call c
ContextSet(contexts, c, value) == [contexts EXCEPT ![c] = <<value>>]
\* current_deapi_token.get() in the context of call c: default=None
ContextGet(contexts, c) == IF contexts[c] = << >> THEN None ELSE contexts[c][1]

\* The contexts of all calls.
Contexts == [c \in Calls |-> calls[c].context]

\* get_current_token() in the context of call c: the token, or a sequence of
\* length 0 when it raises ValueError
GetCurrentToken(contexts, c) ==
    LET token == ContextGet(contexts, c)
    IN  IF Falsy(token) THEN << >> ELSE <<token>>

\* The bearer values of the calls: two credentials sent raw, the empty
\* string, an access token for each credential, a refresh token, and none.
CallBearers ==
    {<< >>, <<BearerOfText("")>>}
    \cup {<<BearerOfText(C)>> : C \in Credentials}
    \cup {<<BearerOfToken(CreateJwt(C, DEFAULT_CLIENT_ID, 0))>> : C \in Credentials}
    \cup {<<BearerOfToken(CreateRefreshToken(LongSecret, DEFAULT_CLIENT_ID, 0))>>}

\* the request of call c arrives: verify_token(token) runs in its context
CallVerifyWith(c, token) ==
    /\ calls[c].pc = "idle"
    /\ LET result == VerifyToken(token, now)
           contexts == IF result.bound = << >>
                       THEN Contexts
                       ELSE ContextSet(Contexts, c, result.bound[1])
       IN  calls' = [k \in Calls |->
                       IF k = c
                       THEN [calls[k] EXCEPT
                               !.pc = IF result.access = << >> THEN "rejected"
                                                               ELSE "authenticated",
                               !.context = contexts[k],
                               !.resolved = result.bound]
                       ELSE [calls[k] EXCEPT !.context = contexts[k]]]
    /\ UNCHANGED <<now, authorization_codes, minted, pc, body, last, granted, rivals,
                   lost, session, poll, restVars>>

CallVerify(c) == \E token \in CallBearers : CallVerifyWith(c, token)

\* the tool body of call c begins: client = get_client()
CallGetClient(c) ==
    /\ calls[c].pc = "authenticated"
    /\ LET api_token == GetCurrentToken(Contexts, c)
       IN  calls' = [calls EXCEPT ![c].pc = IF api_token = << >> THEN "failed"
                                                                 ELSE "submit",
                                  ![c].api_token = api_token]
    /\ UNCHANGED <<now, authorization_codes, minted, pc, body, last, granted, rivals,
                   lost, session, poll, restVars>>

\* an upstream round trip of call c: submit_job, then get_job_status; the
\* request carries "Authorization: Bearer {self.api_token}"
CallRequest(c) ==
    /\ calls[c].pc \in {"submit", "poll"}
    /\ calls' = [calls EXCEPT ![c].pc = IF @ = "submit" THEN "poll" ELSE "done",
                              ![c].sent = calls[c].api_token]
    /\ UNCHANGED <<now, authorization_codes, minted, pc, body, last, granted, rivals,
                   lost, session, poll, restVars>>

\* call c ends: its result or its error goes back, its context is dropped
CallReturn(c) ==
    /\ calls[c].pc \in {"rejected", "failed", "done"}
    /\ calls' = [calls EXCEPT ![c] = IdleCall]
    /\ UNCHANGED <<now, authorization_codes, minted, pc, body, last, granted, rivals,
                   lost, session, poll, restVars>>

NextCalls ==
    \/ \E c \in Calls : CallVerify(c)
    \/ \E c \in Calls : CallGetClient(c)
    \/ \E c \in Calls : CallRequest(c)
    \/ \E c \in Calls : CallReturn(c)

SpecCalls == Init /\ [][NextCalls]_vars

(***************************************************************************)
(* Polling.  Times are counted in ticks of 1/32 second, which hold every   *)
(* delay of the shipped profiles exactly up to the cap: the floats the     *)
(* code computes are these binary fractions.  poll_until_complete runs     *)
(* from one await to the next in one step: it starts a status check, takes *)
(* the answer and returns or goes to sleep, wakes up and starts the next   *)
(* check or raises.  The tools pass no ctx, so the ctx calls are left out. *)
(* get_job_status retries timeouts and network errors on its own; the      *)
(* model draws what it finally hands back: a status or a DeapiAPIError.    *)
(***************************************************************************)
\* The status checks one session makes at most.
MaxChecks == 7

TicksPerSecond == 2 ^ 5

\* PollingConfig(initial_delay, max_delay, timeout), backoff_factor 1.5 = 3/2
PollingConfig(initial_delay, max_delay, timeout) ==
    [initial_delay |-> initial_delay, max_delay |-> max_delay, timeout |-> timeout,
     backoff_factor |-> [num |-> 3, den |-> 2]]

\* Settings.get_polling_config(job_type) on the job types of the tools and
\* on another one
JobTypes == {"audio", "image", "video", "embedding", "other"}
GetPollingConfig(job_type) ==
    CASE job_type = "audio" ->
            PollingConfig(TicksPerSecond, 5 * TicksPerSecond, 300 * TicksPerSecond)
      [] job_type = "image" ->
            PollingConfig(2 * TicksPerSecond, 8 * TicksPerSecond, 300 * TicksPerSecond)
      [] job_type = "video" ->
            PollingConfig(5 * TicksPerSecond, 30 * TicksPerSecond, 900 * TicksPerSecond)
      [] job_type = "embedding" ->
            PollingConfig(TicksPerSecond \div 2, 3 * TicksPerSecond, 120 * TicksPerSecond)
      [] OTHER ->
            PollingConfig(2 * TicksPerSecond, 10 * TicksPerSecond, 300 * TicksPerSecond)

Min(a, b) == IF a <= b THEN a ELSE b

\* A defect: the delay is never capped.
CalculateNextDelayUncapped(config, current_delay) ==
    (current_delay * config.backoff_factor.num) \div config.backoff_factor.den

\* PollingManager._calculate_next_delay(current_delay, attempt).  The
\* division is exact whenever the product is below the cap.
CalculateNextDelay(config, current_delay) ==
    Min((current_delay * config.backoff_factor.num) \div config.backoff_factor.den,
        config.max_delay)

\* A defect: the elapsed time is never tested.
TimedOutNever(config, elapsed) == FALSE

\* A defect: the session is given one tick of grace.
TimedOutLate(config, elapsed) == elapsed > config.timeout + 1

\* poll_until_complete: `if elapsed > self.config.timeout`
TimedOut(config, elapsed) == elapsed > config.timeout

\* What get_job_status hands back: a JobStatus, or a DeapiAPIError with the
\* HTTP status of the upstream answer.
StatusOutcomes ==
    {[kind |-> "status", status |-> st, status_code |-> 200, message |-> None,
      progress |-> None] :
        st \in {"pending", "processing", "done", "failed"}}
ErrorOutcomes ==
    {[kind |-> "error", status |-> None, status_code |-> 404, message |-> "HTTP 404",
      progress |-> None],
     [kind |-> "error", status |-> None, status_code |-> 500, message |-> "HTTP 500",
      progress |-> None]}
CheckOutcomes == StatusOutcomes \cup ErrorOutcomes

\* A defect: a 404 is taken for a transient error.
JobNotFoundNever(outcome) == FALSE

\* poll_until_complete: `if e.status_code == 404`
JobNotFound(outcome) == outcome.status_code = 404

\* ToolResult(success, status, error, metadata={"elapsed_time", "attempts"})
ToolResult(success, status, error, p) ==
    [kind |-> "result", success |-> success, status |-> status, error |-> error,
     attempts |-> p.attempt, elapsed_time |-> p.elapsed]
\* raise PollingTimeoutError(error_msg)
Raised(p) ==
    [kind |-> "raised", success |-> None, status |-> None,
     error |-> "PollingTimeoutError", attempts |-> p.attempt, elapsed_time |-> p.elapsed]

\* `if ctx: await ctx.<call>(...)`: the call the observer of session p
\* receives, when there is one
Note(p, call, progress) ==
    IF p.ctx
    THEN [p EXCEPT !.notes = Append(@, [call |-> call, progress |-> progress])]
    ELSE p

\* A defect: a progress notification restarts the backoff.
ReportProgressResetsDelay(p, outcome) ==
    IF p.ctx /\ outcome.progress # None
    THEN IF p.last_progress # outcome.progress
         THEN [Note(p, "report_progress", outcome.progress)
                  EXCEPT !.last_progress = outcome.progress,
                         !.current_delay = GetPollingConfig(p.job_type).initial_delay]
         ELSE p
    ELSE p

\* A defect: progress is reported whenever the payload carries a value.
ReportProgressAlways(p, outcome) ==
    IF p.ctx /\ outcome.progress # None
    THEN [Note(p, "report_progress", outcome.progress)
             EXCEPT !.last_progress = outcome.progress]
    ELSE p

\* poll_until_complete: `if ctx and status_data.progress is not None:
\* if last_progress != status_data.progress: ...`
ReportProgress(p, outcome) ==
    IF p.ctx /\ outcome.progress # None
    THEN IF p.last_progress # outcome.progress
         THEN [Note(p, "report_progress", outcome.progress)
                  EXCEPT !.last_progress = outcome.progress]
         ELSE p
    ELSE p

\* poll_until_complete: `if ctx and attempt % 5 == 0: await ctx.info(...)`
LogStatus(p) == IF p.attempt % 5 = 0 THEN Note(p, "info", None) ELSE p

\* poll_until_complete: the top of the loop for session p at time clock since
\* start_time: attempt += 1, the timeout check, and the status check begun.
LoopTop(p, clock) ==
    LET q == [p EXCEPT !.attempt = @ + 1, !.elapsed = clock, !.clock = clock]
    IN  IF TimedOut(GetPollingConfig(p.job_type), clock)
        THEN [Note(q, "error", None) EXCEPT !.pc = "raised", !.result = Raised(q)]
        ELSE [q EXCEPT !.pc = "checking", !.started = Append(@, clock)]

\* poll_until_complete: the sleep begun, which ends in the next delay:
\* await asyncio.sleep(current_delay); current_delay = _calculate_next_delay
GoToSleep(p) ==
    [p EXCEPT !.pc = "sleeping", !.sleeps = Append(@, p.current_delay)]

\* poll_until_complete(job_id, ctx) is called on idle session p for a job of
\* job_type: up to the first status check
Begun(p, job_type, ctx) ==
    LoopTop(Note([p EXCEPT !.job_type = job_type,
                           !.current_delay = GetPollingConfig(job_type).initial_delay,
                           !.ctx = ctx],
                 "info", None),
            0)

\* poll_until_complete, from the answer of get_job_status to the return or
\* to the sleep
AfterResponse(p0, outcome) ==
    LET p == [p0 EXCEPT !.outcomes = Append(@, outcome)]
    IN  IF outcome.kind = "status"
        THEN LET q == LogStatus(ReportProgress(p, outcome))
             IN  IF outcome.status = "done"
                 THEN [Note(q, "info", None) EXCEPT
                          !.pc = "returned",
                          !.result = ToolResult(TRUE, outcome.status, None, p)]
                 ELSE IF outcome.status = "failed"
                 THEN [Note(q, "error", None) EXCEPT
                          !.pc = "returned",
                          !.result = ToolResult(FALSE, outcome.status, "Job failed", p)]
                 ELSE GoToSleep(q)
        ELSE LET q == Note(p, "error", None)
             IN  IF JobNotFound(outcome)
                 THEN [q EXCEPT !.pc = "returned",
                                !.result = ToolResult(FALSE, None, "Job not found", p)]
                 ELSE IF p.attempt < 3
                 THEN GoToSleep(Note(q, "info", None))
                 ELSE [q EXCEPT !.pc = "returned",
                                !.result = ToolResult(FALSE, None, outcome.message, p)]

\* poll_until_complete, from the return of asyncio.sleep at time clock since
\* start_time to the next status check or to the raise
AfterWake(p, clock) ==
    LoopTop([p EXCEPT !.current_delay =
                         CalculateNextDelay(GetPollingConfig(p.job_type), @)],
            clock)

\* poll_until_complete(job_id) is called for a job of job_type
PollBegin(job_type) ==
    /\ poll.pc = "idle"
    /\ poll' = Begun(poll, job_type, FALSE)
    /\ UNCHANGED <<now, authorization_codes, minted, pc, body, last, granted, rivals,
                   lost, session, calls, restVars>>

\* get_job_status hands back outcome
PollResponseWith(outcome) ==
    /\ poll.pc = "checking"
    /\ poll' = AfterResponse(poll, outcome)
    /\ UNCHANGED <<now, authorization_codes, minted, pc, body, last, granted, rivals,
                   lost, session, calls, restVars>>

PollResponse == \E outcome \in CheckOutcomes : PollResponseWith(outcome)

\* A defect: the sleep returns at once.
WakeTimesAtOnce(p) == {p.clock}

\* The times since start_time at which the session may find itself at the
\* top of the loop: when the sleep was due, or later (the round trip and the
\* event loop take time): on the timeout to the tick, and one tick past it.
WakeTimes(p) ==
    LET due == p.clock + p.current_delay
        timeout == GetPollingConfig(p.job_type).timeout
    IN  {due} \cup {t \in {timeout, timeout + 1} : t >= due}

\* asyncio.sleep returns at time clock since start_time
PollWakeAt(clock) ==
    /\ poll.pc = "sleeping"
    /\ LET p == AfterWake(poll, clock)
       IN  /\ Len(p.started) <= MaxChecks
           /\ poll' = p
    /\ UNCHANGED <<now, authorization_codes, minted, pc, body, last, granted, rivals,
                   lost, session, calls, restVars>>

PollWake == \E clock \in WakeTimes(poll) : PollWakeAt(clock)

NextPoll ==
    \/ \E job_type \in JobTypes : PollBegin(job_type)
    \/ PollResponse
    \/ PollWake

SpecPoll == Init /\ [][NextPoll]_vars

(***************************************************************************)
(* A polling session run to its end: every status check returns or fails,  *)
(* and every sleep returns.  The session keeps no record of its checks     *)
(* here, so that runs of any length are covered.                           *)
(***************************************************************************)
\* The passes of the loop a session may begin; more than any profile allows
\* before its timeout.
MaxPasses == 80

\* Session p without the record of its checks.
Forget(p) ==
    [p EXCEPT !.started = << >>, !.outcomes = << >>, !.sleeps = << >>, !.notes = << >>]

\* poll_until_complete(job_id) is called for a job of job_type
RunBegin(job_type) ==
    /\ poll.pc = "idle"
    /\ poll' = Forget(Begun(poll, job_type, FALSE))
    /\ UNCHANGED <<now, authorization_codes, minted, pc, body, last, granted, rivals,
                   lost, session, calls, restVars>>

\* get_job_status returns or raises
RunResponse ==
    /\ poll.pc = "checking"
    /\ \E outcome \in CheckOutcomes : poll' = Forget(AfterResponse(poll, outcome))
    /\ UNCHANGED <<now, authorization_codes, minted, pc, body, last, granted, rivals,
                   lost, session, calls, restVars>>

\* asyncio.sleep returns
RunWake ==
    /\ poll.pc = "sleeping"
    /\ poll.attempt < MaxPasses
    /\ \E clock \in WakeTimes(poll) : poll' = Forget(AfterWake(poll, clock))
    /\ UNCHANGED <<now, authorization_codes, minted, pc, body, last, granted, rivals,
                   lost, session, calls, restVars>>

NextRun ==
    \/ \E job_type \in JobTypes : RunBegin(job_type)
    \/ RunResponse
    \/ RunWake

\* The event loop resumes a task whose await has completed.
SpecRun == Init /\ [][NextRun]_vars /\ WF_vars(RunResponse) /\ WF_vars(RunWake)

(***************************************************************************)
(* Two polling sessions side by side: poll_until_complete(job_id) and      *)
(* poll_until_complete(job_id, ctx), with the same answers of              *)
(* get_job_status and the same clock readings.  The calls on ctx return    *)
(* normally.                                                               *)
(***************************************************************************)
\* The checks one session may start.
MaxTwinChecks == 5
\* JobStatusResponse.progress: absent or a percentage.  The session only
\* tests a percentage for presence and for equality with another, so the
\* floats are written as their names.
ProgressValues == {None, "0.0", "50.0"}
\* The answers of get_job_status, with the progress of the payload.
TwinOutcomes ==
    {[o EXCEPT !.progress = v] : o \in StatusOutcomes, v \in ProgressValues}
        \cup ErrorOutcomes
TwinJobTypes == {"image", "other"}

\* poll_until_complete is called twice, without and with ctx
TwinBeginWith(job_type) ==
    /\ Twin.plain.pc = "idle"
    /\ Twin.observed.pc = "idle"
    /\ twin' = [plain |-> Begun(IdlePoll, job_type, FALSE),
                observed |-> Begun(IdlePoll, job_type, TRUE)]
    /\ UNCHANGED <<now, authorization_codes, minted, pc, body, last, granted, rivals,
                   lost, session, calls, poll, tool, mw>>

TwinBegin == \E job_type \in TwinJobTypes : TwinBeginWith(job_type)

\* get_job_status hands back outcome to each session that awaits it
TwinResponseWith(outcome) ==
    /\ Twin.plain.pc = "checking" \/ Twin.observed.pc = "checking"
    /\ twin' = [plain |-> IF Twin.plain.pc = "checking"
                          THEN AfterResponse(Twin.plain, outcome) ELSE Twin.plain,
                observed |-> IF Twin.observed.pc = "checking"
                             THEN AfterResponse(Twin.observed, outcome)
                             ELSE Twin.observed]
    /\ UNCHANGED <<now, authorization_codes, minted, pc, body, last, granted, rivals,
                   lost, session, calls, poll, tool, mw>>

TwinResponse == \E outcome \in TwinOutcomes : TwinResponseWith(outcome)

\* asyncio.sleep returns at time clock in each session that sleeps
TwinWakeAt(clock) ==
    /\ Twin.plain.pc = "sleeping" \/ Twin.observed.pc = "sleeping"
    /\ LET plain == IF Twin.plain.pc = "sleeping"
                    THEN AfterWake(Twin.plain, clock) ELSE Twin.plain
           observed == IF Twin.observed.pc = "sleeping"
                       THEN AfterWake(Twin.observed, clock) ELSE Twin.observed
       IN  /\ Len(plain.started) <= MaxTwinChecks
           /\ Len(observed.started) <= MaxTwinChecks
           /\ twin' = [plain |-> plain, observed |-> observed]
    /\ UNCHANGED <<now, authorization_codes, minted, pc, body, last, granted, rivals,
                   lost, session, calls, poll, tool, mw>>

TwinWake ==
    \E clock \in (IF Twin.plain.pc = "sleeping" THEN WakeTimes(Twin.plain) ELSE {})
                    \cup (IF Twin.observed.pc = "sleeping"
                          THEN WakeTimes(Twin.observed) ELSE {}) :
        TwinWakeAt(clock)

NextTwin ==
    \/ TwinBegin
    \/ TwinResponse
    \/ TwinWake

SpecTwin == Init /\ [][NextTwin]_vars

(***************************************************************************)
(* A tool.  text_to_image and text_to_embedding have one body: get_client, *)
(* submit_job, poll_until_complete, and the dict made of its result, all   *)
(* inside try/except.  The polling session of the tool is its own.         *)
(***************************************************************************)
\* The exceptions the body meets; each is a subclass of Exception.
ValueError == [type |-> "ValueError", message |-> "No deAPI token available."]
DeapiAPIError(message) == [type |-> "DeapiAPIError", message |-> message]
PollingTimeoutError == [type |-> "PollingTimeoutError", message |-> "Job timed out"]
RetryError == [type |-> "RetryError", message |-> "RetryError"]

\* A defect: the tool has no `except Exception` clause.
CaughtApiErrorOnly(exception) ==
    IF exception.type = "DeapiAPIError"
    THEN [kind |-> "dict", success |-> FALSE,
          error |-> "API error: " \o exception.message]
    ELSE [kind |-> "escaped", success |-> None, error |-> exception.type]

\* text_to_image: `except DeapiAPIError as e` and `except Exception as e`
Caught(exception) ==
    IF exception.type = "DeapiAPIError"
    THEN [kind |-> "dict", success |-> FALSE,
          error |-> "API error: " \o exception.message]
    ELSE [kind |-> "dict", success |-> FALSE,
          error |-> "Unexpected error: " \o exception.message]

\* text_to_image: the dict made of the ToolResult of poll_until_complete
ToolReturn(result) ==
    IF result.success
    THEN [kind |-> "dict", success |-> TRUE, error |-> None]
    ELSE [kind |-> "dict", success |-> FALSE, error |-> result.error]

\* What submit_job hands back: the job, a DeapiAPIError for an HTTP error, or
\* the RetryError of its own retries of network errors.
SubmitOutcomes ==
    {[kind |-> "job", exception |-> NoResult],
     [kind |-> "raise", exception |-> DeapiAPIError("Auth failed")],
     [kind |-> "raise", exception |-> RetryError]}
\* The job types of the two tools.
ToolJobTypes == {"image", "embedding"}
\* The value of current_deapi_token in the context of the call.
ToolContexts == {<< >>, <<"">>, <<LongSecret>>}

\* the tool is called: client = get_client(), up to `await client.submit_job`
ToolCallWith(job_type, context) ==
    /\ Tool.pc = "idle"
    /\ tool' = IF GetCurrentToken(<<context>>, 1) = << >>
               THEN [Tool EXCEPT !.pc = "returned", !.job_type = job_type,
                                 !.result = Caught(ValueError)]
               ELSE [Tool EXCEPT !.pc = "submitting", !.job_type = job_type]
    /\ UNCHANGED <<now, authorization_codes, minted, pc, body, last, granted, rivals,
                   lost, session, calls, poll, twin, mw>>

ToolCall == \E job_type \in ToolJobTypes, context \in ToolContexts :
                ToolCallWith(job_type, context)

\* submit_job hands back outcome: the tool returns, or begins to poll
ToolSubmittedWith(outcome) ==
    /\ Tool.pc = "submitting"
    /\ tool' = IF outcome.kind = "raise"
               THEN [Tool EXCEPT !.pc = "returned", !.result = Caught(outcome.exception)]
               ELSE [Tool EXCEPT !.pc = "polling",
                                 !.session = Begun(IdlePoll, Tool.job_type, FALSE)]
    /\ UNCHANGED <<now, authorization_codes, minted, pc, body, last, granted, rivals,
                   lost, session, calls, poll, twin, mw>>

ToolSubmitted == \E outcome \in SubmitOutcomes : ToolSubmittedWith(outcome)

\* The tool after a step of its polling session that left the session as p.
ToolAfter(p) ==
    IF p.pc = "returned"
    THEN [Tool EXCEPT !.pc = "returned", !.session = p, !.result = ToolReturn(p.result)]
    ELSE IF p.pc = "raised"
    THEN [Tool EXCEPT !.pc = "returned", !.session = p,
                      !.result = Caught(PollingTimeoutError)]
    ELSE [Tool EXCEPT !.session = p]

\* get_job_status hands back outcome to the session of the tool
ToolStatusWith(outcome) ==
    /\ Tool.pc = "polling"
    /\ Tool.session.pc = "checking"
    /\ tool' = ToolAfter(AfterResponse(Tool.session, outcome))
    /\ UNCHANGED <<now, authorization_codes, minted, pc, body, last, granted, rivals,
                   lost, session, calls, poll, twin, mw>>

ToolStatus == \E outcome \in CheckOutcomes : ToolStatusWith(outcome)

\* asyncio.sleep returns in the session of the tool
ToolWakeAt(clock) ==
    /\ Tool.pc = "polling"
    /\ Tool.session.pc = "sleeping"
    /\ LET p == AfterWake(Tool.session, clock)
       IN  /\ Len(p.started) <= MaxChecks
           /\ tool' = ToolAfter(p)
    /\ UNCHANGED <<now, authorization_codes, minted, pc, body, last, granted, rivals,
                   lost, session, calls, poll, twin, mw>>

ToolWake == \E clock \in WakeTimes(Tool.session) : ToolWakeAt(clock)

NextTool ==
    \/ ToolCall
    \/ ToolSubmitted
    \/ ToolStatus
    \/ ToolWake

SpecTool == Init /\ [][NextTool]_vars

(***************************************************************************)
(* The model cache of ModelEnrichmentMiddleware.  Each tools/list request  *)
(* is a task on one event loop: a step runs from one suspension to the     *)
(* next (waiting for the lock, awaiting the fetch).  time.monotonic()      *)
(* advances between steps by any amount.                                   *)
(***************************************************************************)
\* The last reading of the clock that is modelled.
MaxClock == 6
\* ModelEnrichmentMiddleware(ttl): the ttl, in ticks of the clock.
Ttl == 2

\* _ModelCache.is_stale
IsStale(cache, ttl) == (cache.clock - cache.last_fetched) > ttl

\* A defect: the cache is not tested again under the lock.
RecheckSkipped(cache, ttl) == TRUE

\* _ensure_cache_fresh: `if not _cache.is_stale(self._ttl): return` under
\* the lock
Recheck(cache, ttl) == IsStale(cache, ttl)

\* _fetch_and_index_models returns: the dicts of the n-th fetch replace the
\* cached ones and last_fetched is the time of the return
FetchAndIndexModels(cache, n) ==
    [cache EXCEPT !.enrichments = n, !.last_fetched = cache.clock]

\* A defect: a failed fetch leaves the timestamp as it was.
FetchFailedUnstamped(cache) == cache

\* _ensure_cache_fresh: `except Exception:` sets last_fetched only
FetchFailed(cache) == [cache EXCEPT !.last_fetched = cache.clock]

\* on_list_tools after _ensure_cache_fresh: the tools, with the cached
\* enrichments
ListReturns(cache, r) ==
    [cache EXCEPT !.requests[r].pc = "done",
                  !.requests[r].returned = <<cache.enrichments>>]

\* request r holds the lock and awaits _fetch_and_index_models
FetchBegins(cache, r) ==
    [cache EXCEPT !.lock = r,
                  !.requests[r].pc = "fetching",
                  !.requests[r].fetched = TRUE,
                  !.fetches = Append(@, [by |-> r, started |-> cache.clock,
                                          ended |-> cache.clock,
                                          outcome |-> "pending",
                                          before |-> cache.enrichments])]

\* time.monotonic() advances
CacheTick ==
    /\ Cache.clock < MaxClock
    /\ mw' = [Cache EXCEPT !.clock = @ + 1]
    /\ UNCHANGED <<now, authorization_codes, minted, pc, body, last, granted, rivals,
                   lost, session, calls, poll, tool, twin>>

\* on_list_tools for request r, up to its first suspension: the first
\* is_stale test, and the lock when nobody holds it or waits for it
ListToolsOf(r) ==
    /\ Cache.requests[r].pc = "idle"
    /\ LET stale == IsStale(Cache, Ttl)
           arrived == [Cache EXCEPT !.requests[r].arrived = Cache.clock,
                                  !.requests[r].found =
                                      IF stale THEN "stale" ELSE "fresh"]
       IN  mw' = IF ~stale
                 THEN ListReturns(arrived, r)
                 ELSE IF Cache.lock = 0 /\ Cache.waiters = << >>
                 THEN IF Recheck(arrived, Ttl)
                      THEN FetchBegins(arrived, r)
                      ELSE ListReturns(arrived, r)
                 ELSE [arrived EXCEPT !.waiters = Append(@, r),
                                      !.requests[r].pc = "waiting",
                                      !.requests[r].waited = TRUE]
    /\ UNCHANGED <<now, authorization_codes, minted, pc, body, last, granted, rivals,
                   lost, session, calls, poll, tool, twin>>

ListTools == \E r \in ListRequests : ListToolsOf(r)

\* the first waiter is given the lock: the second is_stale test
LockAcquired ==
    /\ Cache.lock = 0
    /\ Cache.waiters # << >>
    /\ LET r == Head(Cache.waiters)
           woken == [Cache EXCEPT !.waiters = Tail(@),
                                !.requests[r].rechecked = Cache.clock,
                                !.requests[r].seen = Cache.last_fetched]
       IN  mw' = IF Recheck(woken, Ttl)
                 THEN FetchBegins(woken, r)
                 ELSE ListReturns(woken, r)
    /\ UNCHANGED <<now, authorization_codes, minted, pc, body, last, granted, rivals,
                   lost, session, calls, poll, tool, twin>>

\* _fetch_and_index_models returns or raises in the request that holds the
\* lock; the lock is released and the request returns its tools
FetchEndsWith(ok) ==
    /\ Cache.lock # 0
    /\ LET r == Cache.lock
           n == Len(Cache.fetches)
           cache == IF ok THEN FetchAndIndexModels(Cache, n) ELSE FetchFailed(Cache)
       IN  mw' = ListReturns(
                     [cache EXCEPT !.lock = 0,
                                   !.fetches[n].ended = Cache.clock,
                                   !.fetches[n].outcome =
                                       IF ok THEN "fetched" ELSE "failed"], r)
    /\ UNCHANGED <<now, authorization_codes, minted, pc, body, last, granted, rivals,
                   lost, session, calls, poll, tool, twin>>

FetchEnds == \E ok \in BOOLEAN : FetchEndsWith(ok)

NextCache ==
    \/ CacheTick
    \/ ListTools
    \/ LockAcquired
    \/ FetchEnds

SpecCache == Init /\ [][NextCache]_vars

(***************************************************************************)
(* Properties.  The handlers are functions of the request, the store and   *)
(* the clock, so a property of "every request" is stated at every          *)
(* reachable state, over every request the model draws.                    *)
(***************************************************************************)
\* What POST /token would answer to form now, and the store it would leave.
TokenResult(form) == TokenEndpoint(form, authorization_codes, now)
\* The same for GET /authorize.
NextCode == TokenUrlsafe(minted + 1)
AuthorizeResult(query) == AuthorizeEndpoint(query, authorization_codes, now, NextCode)

\* The records of the store that have not expired at the current time.
Live == {c \in DOMAIN authorization_codes : now <= authorization_codes[c].expires_at}
\* base64url without padding of SHA-256 of the verifier equals the challenge.
PkceMatches(code_verifier, code_challenge) ==
    /\ ~Falsy(code_verifier)
    /\ RStripPad(Sha256B64(code_verifier)) = code_challenge
\* An /authorize request that passes every check on its parameters.
ValidQuery(query) ==
    /\ query.client_id = DEFAULT_CLIENT_ID
    /\ query.redirect_uri \in ValidRedirectUris
    /\ query.response_type = "code"
    /\ ~Falsy(query.code_challenge)
    /\ query.code_challenge_method = "S256"
\* An authorization_code request that names a stored, unexpired code and
\* carries the redirect_uri stored with it.
PresentsLiveCode(form) ==
    /\ InAuthorizationCodeGrant(form)
    /\ form.code \in DOMAIN authorization_codes
    /\ now <= authorization_codes[form.code].expires_at
    /\ form.redirect_uri = authorization_codes[form.code].redirect_uri
IsError(resp, error) == resp.kind = "json" /\ resp.error = error

C2_NoDoubleRedeem ==
    /\ \A c \in DOMAIN granted : granted[c] <= 1
    /\ \A r \in DOMAIN lost : IsError(lost[r], "invalid_grant")
\* Two requests with the same body were in flight together; one earned the token
\* pair and the other has been answered invalid_grant.
C2_Witness ==
    \E r \in DOMAIN lost :
        /\ IsError(lost[r], "invalid_grant")
        /\ \E c \in DOMAIN granted : granted[c] = 1

\* C3: capacity bound.  The store never holds more than
\* AUTHORIZATION_CODE_MAX_ENTRIES records; a valid /authorize request that
\* arrives while that many unexpired records are stored inserts nothing and
\* redirects with error server_error; with fewer unexpired records stored it
\* issues a code.
C3_CapacityBound ==
    /\ Cardinality(DOMAIN authorization_codes) <= AUTHORIZATION_CODE_MAX_ENTRIES
    /\ \A query \in Queries :
          ValidQuery(query) =>
             LET result == AuthorizeResult(query)
             IN  IF Cardinality(Live) >= AUTHORIZATION_CODE_MAX_ENTRIES
                 THEN /\ result.resp.kind = "redirect"
                      /\ result.resp.error = "server_error"
                      /\ result.resp.code = None
                      /\ DOMAIN result.codes \subseteq DOMAIN authorization_codes
                 ELSE /\ result.resp.kind = "redirect"
                      /\ result.resp.code = NextCode
                      /\ NextCode \in DOMAIN result.codes
\* The store is full of unexpired records and /authorize has just answered
\* server_error.
C3_Witness ==
    /\ last.op = "authorize"
    /\ last.resp.kind = "redirect"
    /\ last.resp.error = "server_error"
    /\ Cardinality(Live) = AUTHORIZATION_CODE_MAX_ENTRIES

\* C4: PKCE binding.  For a stored, unexpired code presented with the stored
\* redirect_uri, the code is redeemed (taken from the store) if and only if
\* base64url without padding of SHA-256 of the code_verifier equals the stored
\* code_challenge; a token pair is returned if and only if, in addition, the
\* client_secret passes its length check; with any other verifier, or none,
\* the answer is an error, no token is issued and the code stays stored.
C4_PkceBinding ==
    \A form \in Forms :
        PresentsLiveCode(form) =>
            LET matches == PkceMatches(form.code_verifier,
                                       authorization_codes[form.code].code_challenge)
                result == TokenResult(form)
            IN  /\ (form.code \notin DOMAIN result.codes) <=> matches
                /\ (result.resp.kind = "tokens") <=>
                       (matches /\ ~Falsy(form.client_secret) /\ Len(form.client_secret) >= 10)
                /\ ~matches => /\ result.resp.kind = "json"
                               /\ result.codes = authorization_codes
\* A request with a verifier that does not match has just been refused and its
\* code is still stored, in a run where a matching verifier has redeemed a code.
C4_Witness ==
    /\ last.op = "token"
    /\ last.resp.kind = "json"
    /\ last.resp.error_description = "Invalid code_verifier"
    /\ last.code \in Live
    /\ \E c \in DOMAIN granted : granted[c] = 1

\* C5: code expiry.  A record's expiry is its creation time plus 600 seconds;
\* an authorization_code request naming a stored code whose expiry is in the
\* past is answered invalid_grant and the code is absent from the store
\* afterward; no request earns a token pair from a code later than its expiry.
C5_CodeExpiry ==
    /\ \A query \in Queries :
          LET result == AuthorizeResult(query)
          IN  \A c \in DOMAIN result.codes \ DOMAIN authorization_codes :
                  result.codes[c].expires_at = now + 600
    /\ \A form \in Forms :
          (InAuthorizationCodeGrant(form) /\ form.code \in DOMAIN authorization_codes)
             => LET result == TokenResult(form)
                IN  /\ now > authorization_codes[form.code].expires_at
                          => /\ IsError(result.resp, "invalid_grant")
                             /\ form.code \notin DOMAIN result.codes
                    /\ result.resp.kind = "tokens"
                          => now <= authorization_codes[form.code].expires_at
\* A stored code was presented after its expiry: the answer is invalid_grant
\* and the code is gone.
C5_Witness ==
    /\ last.op = "token"
    /\ IsError(last.resp, "invalid_grant")
    /\ last.resp.error_description = "Authorization code expired"
    /\ last.code \notin DOMAIN authorization_codes

\* C6: /authorize redirects to redirect_uri only when that redirect_uri has
\* passed validation (scheme http or https and a non-empty host), and an
\* invalid or missing client_id is answered with a direct JSON error, never
\* with a redirect.
C6_RedirectOnlyToValidated ==
    /\ (last.op = "authorize" /\ last.resp.kind = "redirect")
          => last.resp.uri \in ValidRedirectUris
    /\ (last.op = "authorize" /\ last.resp.error = "unauthorized_client")
          => last.resp.kind = "json"

\* C7: redirect scheme rejection.  An /authorize request whose redirect_uri
\* has the javascript, data or another scheme than http and https, no scheme,
\* or an empty host, issues no code and leaves the store as it is, whatever
\* its other parameters; no response carries a code to such a redirect_uri.
C7_RedirectSchemeRejection ==
    /\ \A query \in Queries :
          query.redirect_uri \in InvalidRedirectUris =>
             LET result == AuthorizeResult(query)
             IN  /\ result.codes = authorization_codes
                 /\ result.resp.kind = "redirect" => result.resp.code = None
    /\ (last.op = "authorize" /\ last.resp.kind = "redirect" /\ last.resp.code # None)
          => last.resp.uri \notin InvalidRedirectUris
\* /authorize has just refused a redirect_uri while the store held a record.
C7_Witness ==
    /\ last.op = "authorize"
    /\ last.resp.kind = "json"
    /\ last.resp.error_description = "redirect_uri must use http or https scheme"
    /\ authorization_codes # << >>

\* C8: end-to-end flow.  A valid /authorize request that finds the store below
\* capacity stores exactly one new record, bound to its redirect_uri and
\* code_challenge, and redirects to redirect_uri with the new code and the
\* client's state; a token request of the supported client that names a stored,
\* unexpired code with the same redirect_uri, a matching code_verifier and a
\* client_secret of at least 10 characters is answered 200 with access_token,
\* refresh_token, token_type Bearer and expires_in 3600.
C8_EndToEndFlow ==
    /\ \A query \in Queries :
          (ValidQuery(query) /\ Cardinality(Live) < AUTHORIZATION_CODE_MAX_ENTRIES) =>
             LET result == AuthorizeResult(query)
             IN  /\ DOMAIN result.codes = Live \cup {NextCode}
                 /\ NextCode \notin DOMAIN authorization_codes
                 /\ \A c \in Live : result.codes[c] = authorization_codes[c]
                 /\ result.codes[NextCode].redirect_uri = query.redirect_uri
                 /\ result.codes[NextCode].code_challenge = query.code_challenge
                 /\ result.resp.kind = "redirect"
                 /\ result.resp.uri = query.redirect_uri
                 /\ result.resp.code = NextCode
                 /\ result.resp.error = None
                 /\ result.resp.state = IF Falsy(query.state) THEN None ELSE query.state
    /\ \A form \in Forms :
          (/\ PresentsLiveCode(form)
           /\ PkceMatches(form.code_verifier, authorization_codes[form.code].code_challenge)
           /\ ~Falsy(form.client_secret)
           /\ Len(form.client_secret) >= 10) =>
             LET resp == TokenResult(form).resp
             IN  /\ resp.kind = "tokens"
                 /\ resp.status = 200
                 /\ resp.token_type = "Bearer"
                 /\ resp.expires_in = 3600
                 /\ resp.access_token.aud = "deapi-mcp-api"
                 /\ resp.refresh_token.aud = "deapi-mcp-refresh"
\* A code issued by /authorize has just been exchanged for a token pair.
C8_Witness ==
    /\ last.op = "token"
    /\ last.grant_type = "authorization_code"
    /\ last.resp.kind = "tokens"
    /\ last.resp.status = 200
    /\ Granted(last.code) = 1

\* The ways an authorization_code request naming a code can fail on that code.
UnknownCode(form) == form.code \notin DOMAIN authorization_codes
ExpiredCode(form) ==
    /\ ~UnknownCode(form)
    /\ now > authorization_codes[form.code].expires_at
RedirectMismatch(form) ==
    /\ ~UnknownCode(form)
    /\ form.redirect_uri # authorization_codes[form.code].redirect_uri
MissingVerifier(form) == Falsy(form.code_verifier)
WrongVerifier(form) ==
    /\ ~UnknownCode(form)
    /\ ~MissingVerifier(form)
    /\ ~PkceMatches(form.code_verifier, authorization_codes[form.code].code_challenge)

\* C9, as claimed: in the authorization_code grant, an unknown code, an expired
\* code, a redirect_uri different from the stored one, a missing code_verifier
\* and a code_verifier that does not match are each answered invalid_grant.
C9_AllInvalidGrant ==
    \A form \in Forms :
        (/\ InAuthorizationCodeGrant(form)
         /\ ~Falsy(form.code)
         /\ \/ UnknownCode(form)
            \/ ExpiredCode(form)
            \/ RedirectMismatch(form)
            \/ MissingVerifier(form)
            \/ WrongVerifier(form))
           => IsError(TokenResult(form).resp, "invalid_grant")
\* C9, as the code has it: an unknown code, an expired code, a redirect_uri
\* different from the stored one and a code_verifier that does not match are
\* each answered invalid_grant; a missing code_verifier, on a request whose code
\* is stored and unexpired and whose redirect_uri is the stored one, is
\* answered invalid_request.
C9_ErrorCodes ==
    \A form \in Forms :
        (InAuthorizationCodeGrant(form) /\ ~Falsy(form.code)) =>
            LET resp == TokenResult(form).resp
            IN  /\ (UnknownCode(form) \/ ExpiredCode(form) \/ RedirectMismatch(form))
                      => IsError(resp, "invalid_grant")
                /\ (PresentsLiveCode(form) /\ WrongVerifier(form))
                      => IsError(resp, "invalid_grant")
                /\ (PresentsLiveCode(form) /\ MissingVerifier(form))
                      => /\ IsError(resp, "invalid_request")
                         /\ resp.status = 400
\* A request without code_verifier for a stored, unexpired code has just been
\* answered invalid_request.
C9_Witness ==
    /\ last.op = "token"
    /\ last.grant_type = "authorization_code"
    /\ IsError(last.resp, "invalid_request")
    /\ last.resp.error_description = "code_verifier is required"
    /\ last.code \in Live

\* C10: code lifecycle.  A record leaves the store only by a redemption that
\* succeeds (the token request that names it returns a token pair) or by
\* expiry: every step that removes a record either answers a token pair to a
\* token request naming that code, or removes a record whose expiry is past.
C10_RemovedOnlyBySuccessOrExpiry ==
    [][\A c \in DOMAIN authorization_codes \ DOMAIN authorization_codes' :
          \/ now > authorization_codes[c].expires_at
          \/ /\ last'.op = "token"
             /\ last'.code = c
             /\ last'.resp.kind = "tokens"]_vars

(***************************************************************************)
(* Properties of the token chains, under SpecTokens.                       *)
(***************************************************************************)
\* The refresh_token request that redeems token.
RefreshForm(token) ==
    Form("refresh_token", DEFAULT_CLIENT_ID, None, None, None, None, <<token>>)
\* The token pairs the client holds: the first of its chain and the latest.
SessionPairs == IF session = << >> THEN {} ELSE {session[1].first, session[1].latest}

\* C11: audience isolation.  Whatever grant issued a token pair and whatever
\* credential it carries, at every time its refresh token is rejected by
\* decode_jwt and verify_token returns no credential for it, and its access
\* token is rejected by decode_refresh_token and the refresh_token grant
\* answers it 400 invalid_grant; a verify_token call that was given a refresh
\* token of the client has returned no credential.
C11_AudienceIsolation ==
    /\ \A pair \in SessionPairs :
          /\ ~DecodeJwtOk(pair.refresh, now)
          /\ VerifyToken(<<BearerOfToken(pair.refresh)>>, now) = NoCredential
          /\ ~DecodeRefreshTokenOk(pair.access, now)
          /\ LET result == TokenResult(RefreshForm(pair.access))
             IN  /\ IsError(result.resp, "invalid_grant")
                 /\ result.resp.status = 400
    /\ \A pair \in SessionPairs :
          (last.op = "verify" /\ last.resp.token = <<BearerOfToken(pair.refresh)>>)
             => last.resp.result = NoCredential
\* verify_token has returned no credential for the refresh token of a pair
\* that a refresh grant issued, while that token is unexpired and would be
\* redeemed by the refresh_token grant.
C11_Witness ==
    /\ session # << >>
    /\ session[1].hops >= 1
    /\ last.op = "verify"
    /\ last.resp.token = <<BearerOfToken(session[1].latest.refresh)>>
    /\ last.resp.result = NoCredential
    /\ DecodeRefreshTokenOk(session[1].latest.refresh, now)
    /\ TokenResult(RefreshForm(session[1].latest.refresh)).resp.kind = "tokens"

\* C12: refresh rotation without revocation.  A refresh_token request leaves
\* the store of the server as it is; when it succeeds it returns an access
\* token and a refresh token issued at the time of the request, with full
\* lifetimes, that decode_jwt and decode_refresh_token accept.  Every refresh
\* token the client holds is redeemed successfully as long as it is unexpired,
\* however often it has been redeemed and whatever has been done with the
\* tokens it produced.
C12_RefreshWithoutRevocation ==
    /\ \A form \in TokenForms :
          form.grant_type = "refresh_token" =>
             LET result == TokenResult(form)
                 resp == result.resp
             IN  /\ result.codes = authorization_codes
                 /\ resp.kind = "tokens" =>
                       /\ resp.status = 200
                       /\ resp.access_token.iat = now
                       /\ resp.access_token.exp = now + JWT_EXPIRATION_SECONDS
                       /\ resp.refresh_token.iat = now
                       /\ resp.refresh_token.exp = now + REFRESH_TOKEN_EXPIRATION_SECONDS
                       /\ resp.refresh_token.exp >= form.refresh_token[1].exp
                       /\ DecodeJwtOk(resp.access_token, now)
                       /\ DecodeRefreshTokenOk(resp.refresh_token, now)
    /\ \A pair \in SessionPairs :
          pair.refresh.exp > now
             => TokenResult(RefreshForm(pair.refresh)).resp.kind = "tokens"
    /\ (last.op = "token" /\ last.grant_type = "refresh_token"
           /\ last.resp.kind = "tokens")
          => /\ session # << >>
             /\ session[1].latest = [access  |-> last.resp.access_token,
                                     refresh |-> last.resp.refresh_token]
\* The first refresh token of the chain has been redeemed twice, the access
\* token of its second redemption has just been verified, and the refresh
\* token is still redeemed successfully.
C12_Witness ==
    /\ session # << >>
    /\ session[1].replays = 2
    /\ session[1].hops = 1
    /\ last.op = "verify"
    /\ last.resp.token = <<BearerOfToken(session[1].latest.access)>>
    /\ last.resp.result.access # << >>
    /\ TokenResult(RefreshForm(session[1].first.refresh)).resp.kind = "tokens"

\* C13: credential round trip.  decrypt_token(encrypt_token(C)) returns C for
\* every credential C.  The access token of every successful grant, when
\* verify_token accepts it, yields the client_secret of the request for the
\* client_credentials and authorization_code grants and the credential that
\* began the chain for the refresh_token grant; so does every access token
\* the client holds, after chains of refresh grants of every length, and so
\* did the verify_token call that has just accepted one.
C13_CredentialRoundTrip ==
    /\ \A C \in Credentials \cup PlainTexts :
          /\ DecryptOk(EncryptToken(C))
          /\ DecryptToken(EncryptToken(C)) = C
    /\ \A form \in TokenForms :
          LET resp == TokenResult(form).resp
          IN  resp.kind = "tokens" =>
                 LET verified == VerifyToken(<<BearerOfToken(resp.access_token)>>, now)
                 IN  IF form.grant_type = "refresh_token"
                     THEN /\ form.refresh_token[1] \in SessionTokens
                          /\ verified = Authenticated(session[1].origin)
                     ELSE verified = Authenticated(form.client_secret)
    /\ \A pair \in SessionPairs :
          LET verified == VerifyToken(<<BearerOfToken(pair.access)>>, now)
          IN  verified # NoCredential
                 => /\ verified.access[1].token = session[1].origin
                    /\ verified.bound = <<session[1].origin>>
    /\ \A pair \in SessionPairs :
          (last.op = "verify" /\ last.resp.token = <<BearerOfToken(pair.access)>>
              /\ last.resp.result.access # << >>)
             => last.resp.result.access[1].token = session[1].origin
\* A chain of the longest length has outlived its first access token, and
\* verify_token has just accepted its latest access token and returned the
\* credential that began the chain.
C13_Witness ==
    /\ session # << >>
    /\ session[1].hops = MaxHops
    /\ session[1].first.access.exp <= now
    /\ session[1].first.access # session[1].latest.access
    /\ last.op = "verify"
    /\ last.resp.token = <<BearerOfToken(session[1].latest.access)>>
    /\ last.resp.result = Authenticated(session[1].origin)

\* C14: upstream credential length check.  A client_credentials or
\* authorization_code request whose client_secret is missing, empty or
\* shorter than MIN_CLIENT_SECRET_LENGTH characters earns no token, and it is
\* answered 401 invalid_client once it has passed the checks that come first
\* (the client_id, and for authorization_code a stored, unexpired code with
\* its redirect_uri and verifier).  With a client_secret of
\* MIN_CLIENT_SECRET_LENGTH or more characters such a request earns a token
\* pair, and both tokens carry exactly that client_secret, encrypted.
C14_ClientSecretLength ==
    \A form \in TokenForms :
        form.grant_type \in {"client_credentials", "authorization_code"} =>
           LET resp == TokenResult(form).resp
               rejected == Falsy(form.client_secret)
                              \/ Len(form.client_secret) < MIN_CLIENT_SECRET_LENGTH
               reached == \/ form.grant_type = "client_credentials"
                          \/ /\ PresentsLiveCode(form)
                             /\ PkceMatches(form.code_verifier,
                                            authorization_codes[form.code].code_challenge)
           IN  /\ rejected => resp.kind # "tokens"
               /\ (rejected /\ reached)
                     => (IsError(resp, "invalid_client") /\ resp.status = 401)
               /\ (~rejected /\ reached)
                     => /\ resp.kind = "tokens"
                        /\ resp.access_token.deapi_token_enc = EncryptToken(form.client_secret)
                        /\ resp.refresh_token.deapi_token_enc = EncryptToken(form.client_secret)
                        /\ DecryptToken(resp.access_token.deapi_token_enc) = form.client_secret
\* An authorization_code request with a valid code and a short or missing
\* client_secret has just been answered 401 invalid_client; the client holds
\* no token.
C14_Witness ==
    /\ last.op = "token"
    /\ last.grant_type = "authorization_code"
    /\ IsError(last.resp, "invalid_client")
    /\ last.resp.status = 401
    /\ last.code \notin DOMAIN authorization_codes
    /\ session = << >>

\* The token that a three-segment bearer string carries fails verification at
\* the current time: wrong signature, expired, wrong audience, no
\* encrypted-credential claim, or a claim that the server's key does not open.
FailsVerification(token) ==
    \/ token.signed_with # JwtSecretKey
    \/ token.exp <= now
    \/ token.aud # "deapi-mcp-api"
    \/ token.deapi_token_enc = NoClaim
    \/ token.deapi_token_enc.fernet_key # JwtSecretKey

\* C15: the Request Authenticator never raises.  For every bearer value
\* verify_token returns either an access result, with the call-scoped
\* credential set to the credential of that result, or no credential, with
\* the call-scoped credential left unset.  A three-segment string that is no
\* token, or whose token fails signature, expiry or audience verification,
\* lacks the encrypted-credential claim or fails decryption, gives no
\* credential; so did the verify_token call that has just served one.
C15_VerifyNeverRaises ==
    /\ \A token \in Bearers :
          LET result == VerifyToken(token, now)
          IN  /\ \/ result = NoCredential
                 \/ /\ Len(result.access) = 1
                    /\ result.bound = <<result.access[1].token>>
              /\ (token # << >> /\ token[1].dots = 2)
                    => /\ (token[1].jwt = << >>) => result = NoCredential
                       /\ (token[1].jwt # << >> /\ FailsVerification(token[1].jwt[1]))
                             => (result.access = << >> /\ result.bound = << >>)
    /\ (last.op = "verify" /\ last.resp.token # << >> /\ last.resp.token[1].dots = 2
           /\ last.resp.token[1].jwt # << >>
           /\ FailsVerification(last.resp.token[1].jwt[1]))
          => last.resp.result = NoCredential
\* verify_token has just returned no credential for a token that the server's
\* key signed for the access audience and that is unexpired, but whose
\* encrypted credential another key made.
C15_Witness ==
    /\ last.op = "verify"
    /\ last.resp.token # << >>
    /\ last.resp.token[1].jwt # << >>
    /\ DecodeJwtOk(last.resp.token[1].jwt[1], now)
    /\ last.resp.token[1].jwt[1].deapi_token_enc # NoClaim
    /\ ~DecryptOk(last.resp.token[1].jwt[1].deapi_token_enc)
    /\ last.resp.result = NoCredential

(***************************************************************************)
(* Properties of the tool calls, under SpecCalls.                          *)
(***************************************************************************)
\* C16: per-call credential isolation.  In every interleaving of the calls,
\* get_current_token in the context of an authenticated call returns the
\* credential verify_token resolved for that call (or raises when that
\* credential is empty), whatever the other calls have resolved; the
\* DeapiClient of a call holds, and every upstream request of the call
\* carries, the credential resolved for that call.
C16_CredentialIsolation ==
    \A c \in Calls :
        /\ calls[c].pc = "authenticated"
              => /\ calls[c].resolved # << >>
                 /\ GetCurrentToken(Contexts, c) \in {<< >>, calls[c].resolved}
                 /\ GetCurrentToken(Contexts, c) = << >> => calls[c].resolved = <<"">>
        /\ calls[c].api_token # << >> => calls[c].api_token = calls[c].resolved
        /\ calls[c].sent # << >> => calls[c].sent = calls[c].resolved
\* Two calls that resolved different credentials are in progress together;
\* each has read its own credential and sent it upstream.
C16_Witness ==
    \E c, k \in Calls :
        /\ calls[c].resolved # << >>
        /\ calls[k].resolved # << >>
        /\ calls[c].resolved # calls[k].resolved
        /\ calls[c].pc = "poll"
        /\ calls[k].pc = "poll"
        /\ calls[c].sent = calls[c].resolved
        /\ calls[k].sent = calls[k].resolved

(***************************************************************************)
(* Properties of the polling session, under SpecPoll.                      *)
(***************************************************************************)
\* The config of the session.
Config == GetPollingConfig(poll.job_type)
\* The status checks answered so far.
Answered == Len(poll.outcomes)
InProgress(outcome) ==
    outcome.kind = "status" /\ outcome.status \in {"pending", "processing"}
\* A status check that failed with an upstream error other than 404.
Transient(outcome) == outcome.kind = "error" /\ outcome.status_code # 404
\* Checks 1 .. n were all answered with an in-progress status.
InProgressThrough(n) == \A i \in 1 .. n : InProgress(poll.outcomes[i])

\* C17: polling to success.  When the status checks 1..N-1 were answered
\* in progress and check N done, poll_until_complete has returned
\* success=true with metadata.attempts = N after exactly N status checks.
\* The sleep before check k+1 is min(initial_delay * backoff_factor^(k-1),
\* max_delay) of the profile of the job type (compared after multiplying by
\* 2^(k-1), the factor being 3/2), so the sleeps never decrease and never
\* exceed max_delay.
C17_PollingToSuccess ==
    /\ (Answered >= 1 /\ InProgressThrough(Answered - 1)
           /\ poll.outcomes[Answered].status = "done")
          => /\ poll.pc = "returned"
             /\ poll.result.kind = "result"
             /\ poll.result.success = TRUE
             /\ poll.result.attempts = Answered
             /\ Len(poll.started) = Answered
    /\ \A k \in 1 .. Len(poll.sleeps) :
          /\ poll.sleeps[k] * 2 ^ (k - 1)
                = Min(Config.initial_delay * 3 ^ (k - 1), Config.max_delay * 2 ^ (k - 1))
          /\ poll.sleeps[k] <= Config.max_delay
          /\ k > 1 => poll.sleeps[k - 1] <= poll.sleeps[k]
\* A video job answered processing three times and done on the fourth check:
\* the session slept 5, 7.5 and 11.25 seconds and returned success with
\* attempts = 4.
C17_Witness ==
    /\ poll.job_type = "video"
    /\ Answered = 4
    /\ InProgressThrough(3)
    /\ \A i \in 1 .. 3 : poll.outcomes[i].status = "processing"
    /\ poll.outcomes[4].status = "done"
    /\ poll.result.kind = "result"
    /\ poll.result.success = TRUE
    /\ poll.result.attempts = 4
    /\ poll.sleeps = <<5 * TicksPerSecond, (15 * TicksPerSecond) \div 2,
                       (45 * TicksPerSecond) \div 4>>

\* C18: polling timeout.  Every status check started at an elapsed time that
\* does not exceed the timeout of the profile, and the check in flight
\* started at the elapsed time the session last measured.  Once the session
\* has raised the timeout, the elapsed time it measured exceeds the timeout,
\* that pass of the loop started no status check (one check fewer than
\* attempts) and no sleep, and the session takes no further step.
C18_PollingTimeout ==
    /\ \A i \in 1 .. Len(poll.started) : poll.started[i] <= Config.timeout
    /\ poll.pc = "checking"
          => /\ poll.elapsed <= Config.timeout
             /\ poll.started[Len(poll.started)] = poll.elapsed
             /\ Len(poll.started) = poll.attempt
    /\ poll.pc = "raised"
          => /\ poll.result.kind = "raised"
             /\ poll.elapsed > Config.timeout
             /\ Len(poll.started) = poll.attempt - 1
             /\ Answered = Len(poll.started)
             /\ Len(poll.sleeps) = Len(poll.started)
             /\ ~ENABLED NextPoll
\* A status check started when the elapsed time was the timeout to the tick,
\* it was answered in progress, and the next pass of the loop has raised the
\* timeout without a check.
C18_Witness ==
    /\ poll.pc = "raised"
    /\ Len(poll.started) >= 2
    /\ poll.started[Len(poll.started)] = Config.timeout
    /\ InProgress(poll.outcomes[Answered])
    /\ poll.elapsed > Config.timeout

\* The session has returned a result with success=false and an error message.
StructuredFailure ==
    /\ poll.pc = "returned"
    /\ poll.result.kind = "result"
    /\ poll.result.success = FALSE
    /\ poll.result.error # None
\* How many of the latest answers in a row were transient errors.
FailedRun ==
    CHOOSE k \in 0 .. Answered :
        /\ \A i \in (Answered - k + 1) .. Answered : Transient(poll.outcomes[i])
        /\ k = Answered \/ ~Transient(poll.outcomes[Answered - k])
\* The session has given up on a transient error: it returned the error text.
GaveUp ==
    /\ poll.pc = "returned"
    /\ Answered >= 1
    /\ Transient(poll.outcomes[Answered])

\* C19: poll_until_complete never raises.  A session whose job was answered
\* failed, a session that gave up on transient errors, and a session whose
\* elapsed time exceeded the timeout have each returned a result with
\* success=false and an error message; no session ends by raising.
C19_NeverRaises ==
    /\ poll.result.kind # "raised"
    /\ (Answered >= 1 /\ poll.outcomes[Answered].status = "failed") => StructuredFailure
    /\ GaveUp => StructuredFailure
    /\ (poll.pc # "idle" /\ poll.elapsed > Config.timeout) => StructuredFailure

\* C20: transient-error retry bound.  A status check that fails with an
\* upstream error other than 404 is followed by a sleep and another check
\* unless it is the third failure in a row, however many checks were answered
\* in progress before; the session gives up, returning the error text, only
\* on the third failure in a row; a session whose first two checks failed and
\* whose third was answered done has returned success.
C20_RetryBound ==
    /\ FailedRun <= 3
    /\ GaveUp => (FailedRun = 3 /\ StructuredFailure
                    /\ poll.result.error = poll.outcomes[Answered].message)
    /\ (Answered >= 1 /\ Transient(poll.outcomes[Answered]) /\ FailedRun < 3)
          => poll.pc \in {"sleeping", "checking", "raised"}
    /\ (Answered = 3 /\ Transient(poll.outcomes[1]) /\ Transient(poll.outcomes[2])
           /\ poll.outcomes[3].status = "done")
          => (poll.pc = "returned" /\ poll.result.success = TRUE)

\* C21: job not found.  A status check answered with HTTP 404, at whatever
\* attempt, is the last of the session: the session has returned a failure
\* result whose error is "Job not found", with that attempt number; it began
\* no sleep after the check and takes no further step.
C21_JobNotFound ==
    /\ \A i \in 1 .. Answered :
          (poll.outcomes[i].kind = "error" /\ poll.outcomes[i].status_code = 404)
             => /\ i = Answered
                /\ StructuredFailure
                /\ poll.result.error = "Job not found"
                /\ poll.result.attempts = i
                /\ Len(poll.started) = i
                /\ Len(poll.sleeps) = i - 1
                /\ ~ENABLED NextPoll
\* The fourth status check of a session, after three answered in progress, was
\* answered 404 and the session has returned "Job not found".
C21_Witness ==
    /\ Answered = 4
    /\ InProgressThrough(3)
    /\ poll.outcomes[4].status_code = 404
    /\ poll.pc = "returned"
    /\ poll.result.error = "Job not found"
    /\ Len(poll.sleeps) = 3

(***************************************************************************)
(* Properties of the tool, under SpecTool.                                 *)
(***************************************************************************)
\* The tool has returned a dict with success=false and an error string.
FailureDict ==
    /\ Tool.pc = "returned"
    /\ Tool.result.kind = "dict"
    /\ Tool.result.success = FALSE
    /\ Tool.result.error # None

\* C22: tool result envelope.  Whatever get_client, submit_job and the
\* polling session do, the tool ends by returning a dict whose success is a
\* boolean and which carries an error string when success is false; no
\* exception leaves the tool.  The dict reports success when the job was
\* done and failure for a failed job, exhausted retries, a job not found, an
\* upstream error on submission, a timeout raised by the polling loop and a
\* missing call-scoped credential.
C22_ToolEnvelope ==
    /\ Tool.result.kind # "escaped"
    /\ Tool.pc = "returned"
          => /\ Tool.result.kind = "dict"
             /\ Tool.result.success \in BOOLEAN
             /\ Tool.result.success = FALSE => Tool.result.error # None
    /\ Tool.session.pc = "raised" => FailureDict
    /\ Tool.session.pc = "returned"
          => /\ Tool.pc = "returned"
             /\ Tool.result.success = Tool.session.result.success
             /\ Tool.result.error = Tool.session.result.error
    /\ (Tool.pc = "returned" /\ Tool.session.pc = "idle") => FailureDict
    /\ Tool.pc \in {"idle", "submitting", "polling"} => Tool.result = NoResult
\* The polling loop of the tool has raised the timeout and the tool has
\* returned a dict with success=false and the error of an unexpected failure.
C22_Witness ==
    /\ Tool.session.pc = "raised"
    /\ Tool.pc = "returned"
    /\ Tool.result.kind = "dict"
    /\ Tool.result.success = FALSE
    /\ Tool.result.error = "Unexpected error: Job timed out"

(***************************************************************************)
(* Properties of the observer, under SpecTwin.                             *)
(***************************************************************************)
\* The progress values notified to the observer of p, in order.
Notified(p) ==
    LET RECURSIVE Values(_)
        Values(notes) ==
            IF notes = << >> THEN << >>
            ELSE IF Head(notes).call = "report_progress"
                 THEN <<Head(notes).progress>> \o Values(Tail(notes))
                 ELSE Values(Tail(notes))
    IN  Values(p.notes)
\* The last value notified, None before the first notification.
LastNotified(p) ==
    IF Notified(p) = << >> THEN None ELSE Notified(p)[Len(Notified(p))]

\* C23: progress notifications are not redundant.  In a session with an
\* observer, an answer of get_job_status makes the session emit one progress
\* notification, with the progress of the payload, exactly when the payload
\* carries a progress value and that value differs from the last value
\* notified; otherwise it emits none.  Two consecutive notifications never
\* carry the same value, and a payload without progress leaves the remembered
\* value as it was.
C23_ProgressNotRedundant ==
    LET p == Twin.observed
    IN  /\ \A i \in 1..(Len(Notified(p)) - 1) : Notified(p)[i] # Notified(p)[i + 1]
        /\ p.last_progress = LastNotified(p)
        /\ p.pc = "checking" =>
              \A outcome \in TwinOutcomes :
                  LET q == AfterResponse(p, outcome)
                      fresh == /\ outcome.kind = "status"
                               /\ outcome.progress # None
                               /\ outcome.progress # LastNotified(p)
                  IN  /\ Notified(q) = IF fresh
                                       THEN Append(Notified(p), outcome.progress)
                                       ELSE Notified(p)
                      /\ outcome.progress = None => q.last_progress = p.last_progress
\* The observer was notified of 0.0, then of 50.0, then of 0.0 again, and between
\* them answers that repeated the value or carried none went unnotified.
C23_Witness ==
    /\ Notified(Twin.observed) = <<"0.0", "50.0", "0.0">>
    /\ Len(Twin.observed.outcomes) = 5
    /\ \E i \in 1..5 : Twin.observed.outcomes[i].progress = None

\* The fields of a session that its control flow and its result consist of.
Flow(p) ==
    [pc |-> p.pc, attempt |-> p.attempt, current_delay |-> p.current_delay,
     elapsed |-> p.elapsed, clock |-> p.clock, result |-> p.result,
     started |-> p.started, outcomes |-> p.outcomes, sleeps |-> p.sleeps]

\* C24: the observer never alters control flow.  Given the same answers of
\* get_job_status and the same clock readings, the session called with ctx
\* and the session called without it start the same checks at the same
\* times, sleep the same delays, and end with the same outcome and the same
\* result fields.
C24_ObserverNeutral == Flow(Twin.observed) = Flow(Twin.plain)
\* Both sessions have returned after three checks, and the observer of the
\* one was told of the start, of a progress value and of the completion.
C24_Witness ==
    /\ Twin.plain.pc = "returned"
    /\ Twin.observed.pc = "returned"
    /\ Len(Twin.plain.started) = 3
    /\ Twin.plain.notes = << >>
    /\ Len(Twin.observed.notes) >= 3
    /\ Notified(Twin.observed) # << >>

(***************************************************************************)
(* Properties of the order of the checks, under SpecPoll.                  *)
(***************************************************************************)
\* C25: sequential status checks.  A session has at most one status check
\* outstanding, and only while it awaits get_job_status; a check after the
\* first one starts only when the check before it has returned and the
\* whole delay that was current then has passed since.
C25_SequentialChecks ==
    /\ Len(poll.started) - Len(poll.outcomes) \in {0, 1}
    /\ Len(poll.started) - Len(poll.outcomes) = 1 <=> poll.pc = "checking"
    /\ Len(poll.sleeps) \in {Len(poll.started) - 1, Len(poll.started)}
    /\ Len(poll.sleeps) <= Len(poll.outcomes)
    /\ \A i \in 1..(Len(poll.started) - 1) :
          /\ poll.started[i + 1] >= poll.started[i] + poll.sleeps[i]
          /\ poll.sleeps[i] > 0
          /\ \/ InProgress(poll.outcomes[i])
             \/ Transient(poll.outcomes[i])
    /\ poll.pc = "sleeping" =>
          \A clock \in WakeTimes(poll) : clock >= poll.clock + poll.current_delay
\* The third check is outstanding: the first was answered with a transient
\* error and the second with a job in progress, and each later check started
\* one full delay after the one before.
C25_Witness ==
    /\ poll.pc = "checking"
    /\ Len(poll.started) = 3
    /\ Len(poll.outcomes) = 2
    /\ Transient(poll.outcomes[1])
    /\ InProgress(poll.outcomes[2])
    /\ poll.started[2] = poll.started[1] + poll.sleeps[1]
    /\ poll.started[3] = poll.started[2] + poll.sleeps[2]
    /\ poll.sleeps[2] > poll.sleeps[1]

(***************************************************************************)
(* Properties of the model cache, under SpecCache.                         *)
(***************************************************************************)
\* At most one request awaits the fetch, the one that holds the lock; the
\* fetches follow one another; a request that found the cache fresh has not
\* fetched.
OneFetchAtATime ==
    /\ \A r \in ListRequests : Cache.requests[r].pc = "fetching" <=> Cache.lock = r
    /\ \A i \in 1..Len(Cache.fetches) :
          Cache.fetches[i].outcome = "pending" => i = Len(Cache.fetches) /\ Cache.lock # 0
    /\ \A r \in ListRequests :
          Cache.requests[r].found = "fresh" => ~Cache.requests[r].fetched

\* C26 as stated: model cache refresh is single-flight.  Of the requests
\* that find the cache stale one fetches, the others wait on the lock and
\* never fetch; a request that finds the cache fresh does not fetch.
C26_SingleFlight ==
    /\ OneFetchAtATime
    /\ \A r \in ListRequests : Cache.requests[r].waited => ~Cache.requests[r].fetched

\* C26, amended: model cache refresh is single-flight.  Of the requests that
\* find the cache stale one fetches; each of the others waits on the lock,
\* sees under the lock a timestamp set since it arrived, and fetches only if
\* more than the TTL has passed since that timestamp; a request that finds
\* the cache fresh does not fetch.
C26_SingleFlightWithinTtl ==
    /\ OneFetchAtATime
    /\ \A r \in ListRequests :
          LET q == Cache.requests[r]
          IN  (q.waited /\ q.pc \in {"fetching", "done"})
                  => /\ q.found = "stale"
                     /\ q.seen >= q.arrived
                     /\ \E i \in 1..Len(Cache.fetches) :
                            /\ Cache.fetches[i].by # r
                            /\ Cache.fetches[i].outcome # "pending"
                            /\ Cache.fetches[i].ended = q.seen
                     /\ q.fetched <=> (q.rechecked - q.seen) > Ttl
    /\ \A i \in 1..(Len(Cache.fetches) - 1) :
          Cache.fetches[i + 1].started > Cache.fetches[i].ended + Ttl
\* Three requests found the cache stale while none had fetched yet: one
\* fetched, the other two waited on the lock and returned the enrichments of
\* that fetch without fetching.
C26_Witness ==
    /\ \A r \in ListRequests :
          /\ Cache.requests[r].pc = "done"
          /\ Cache.requests[r].found = "stale"
          /\ Cache.requests[r].returned = <<1>>
    /\ Len(Cache.fetches) = 1
    /\ \E r \in ListRequests :
          /\ Cache.requests[r].fetched
          /\ \A o \in ListRequests \ {r} :
                Cache.requests[o].waited /\ ~Cache.requests[o].fetched

\* C27: a failed model fetch does not cause a retry storm.  When the fetch
\* raises, the request returns its tools with the enrichments that were
\* cached before, the cache keeps those enrichments and its last-fetched
\* time is the time of the failure, and no request starts another fetch
\* until more than the TTL has passed since the failure.
C27_NoRetryStorm ==
    /\ Cache.lock # 0 =>
          /\ FetchFailed(Cache).enrichments = Cache.enrichments
          /\ FetchFailed(Cache).last_fetched = Cache.clock
    /\ \A i \in 1..Len(Cache.fetches) :
          LET f == Cache.fetches[i]
          IN  f.outcome = "failed" =>
                  /\ Cache.requests[f.by].pc = "done"
                  /\ Cache.requests[f.by].returned = <<f.before>>
                  /\ i = Len(Cache.fetches) =>
                        /\ Cache.enrichments = f.before
                        /\ Cache.last_fetched = f.ended
                        /\ Cache.clock - f.ended <= Ttl => ~IsStale(Cache, Ttl)
                  /\ i < Len(Cache.fetches) =>
                        Cache.fetches[i + 1].started > f.ended + Ttl
\* The second fetch failed: the enrichments of the first are still cached,
\* and a request that arrived after the failure found the cache fresh and
\* returned them.
C27_Witness ==
    /\ Len(Cache.fetches) = 2
    /\ Cache.fetches[1].outcome = "fetched"
    /\ Cache.fetches[2].outcome = "failed"
    /\ Cache.enrichments = 1
    /\ \E r \in ListRequests :
          /\ Cache.requests[r].pc = "done"
          /\ Cache.requests[r].found = "fresh"
          /\ Cache.requests[r].arrived >= Cache.fetches[2].ended
          /\ Cache.requests[r].returned = <<1>>

(***************************************************************************)
(* Properties of failed redemptions, under Spec.                           *)
(***************************************************************************)
\* The descriptions of the three failures of a request that names a stored,
\* unexpired code.
FailedRedemptions ==
    {"redirect_uri mismatch", "code_verifier is required", "Invalid code_verifier"}
\* form names a stored, unexpired code and fails on its redirect_uri or its
\* code_verifier.
FailsRedemption(form) ==
    /\ InAuthorizationCodeGrant(form)
    /\ form.code \in Live
    /\ \/ RedirectMismatch(form)
       \/ MissingVerifier(form)
       \/ WrongVerifier(form)

\* The requests that name code with the verifier of the stored challenge and
\* a valid redirect_uri.
Redeeming(code) ==
    {Form("authorization_code", DEFAULT_CLIENT_ID, LongSecret, code, GoodVerifier, u, << >>) :
        u \in ValidRedirectUris}
\* The requests of the supported client that name code: with each verifier or
\* none, and each redirect_uri or none.
Attempts(code) ==
    {Form("authorization_code", DEFAULT_CLIENT_ID, LongSecret, code, v, u, << >>) :
        v \in {GoodVerifier, "verifier-two", None},
        u \in ValidRedirectUris \cup {None}}

\* C28: a failed redemption leaves the store unchanged.  A token request
\* that names a stored, unexpired code and has another redirect_uri than the
\* stored one, no code_verifier or a code_verifier that does not match is
\* answered an error and leaves the store as it is; the request with the
\* stored redirect_uri and the verifier of the stored challenge redeems the
\* code after the failure, at once and at any time up to the expiry of the
\* code.
C28_FailedRedemptionKeepsCode ==
    /\ \A code \in Live :
          LET record == authorization_codes[code]
          IN  \A form \in Attempts(code) :
                  FailsRedemption(form) =>
                      LET result == TokenResult(form)
                      IN  /\ result.resp.kind = "json"
                          /\ result.resp.error_description \in FailedRedemptions
                          /\ result.codes = authorization_codes
                          /\ \A good \in Redeeming(code) :
                                (/\ good.redirect_uri = record.redirect_uri
                                 /\ PkceMatches(good.code_verifier, record.code_challenge))
                                   => \A t \in {now, record.expires_at} :
                                         TokenEndpoint(good, result.codes, t).resp.kind
                                             = "tokens"
    /\ (/\ last.op = "token"
        /\ last.resp.kind = "json"
        /\ last.resp.error_description \in FailedRedemptions)
          => last.code \in DOMAIN authorization_codes
\* A request with a code_verifier that does not match has just been answered
\* an error; its code is still stored and unexpired, and the request with the
\* right code_verifier and redirect_uri would now be answered a token pair.
C28_Witness ==
    /\ last.op = "token"
    /\ last.resp.kind = "json"
    /\ last.resp.error_description = "Invalid code_verifier"
    /\ last.code \in Live
    /\ \E good \in Redeeming(last.code) : TokenResult(good).resp.kind = "tokens"

(***************************************************************************)
(* Properties of authentication and the credential, under SpecCalls.       *)
(***************************************************************************)
\* C29: authentication and credential availability agree.  Whenever
\* verify_token accepts a bearer value and returns an access result, the
\* credential it has set in the context of the call is a non-empty string,
\* and get_current_token in that context returns it without raising: for
\* every call that verify_token has let through, whatever its bearer value,
\* the empty string and strings without exactly two dots included.
C29_AcceptedHasCredential ==
    \A c \in Calls :
        calls[c].pc = "authenticated" =>
            /\ calls[c].resolved # << >>
            /\ ~Falsy(calls[c].resolved[1])
            /\ GetCurrentToken(Contexts, c) = calls[c].resolved

(***************************************************************************)
(* Properties of a session run to its end, under SpecRun.                  *)
(***************************************************************************)
\* The terminal outcome of the session, or "none" while it is polling.
Outcome ==
    IF poll.pc = "raised" THEN "timed_out"
    ELSE IF poll.pc # "returned" THEN "none"
    ELSE IF poll.result.success THEN "done"
    ELSE IF poll.result.status = "failed" THEN "failed"
    ELSE IF poll.result.error = "Job not found" THEN "not_found"
    ELSE "given_up"
Polling == poll.pc \in {"checking", "sleeping"}
Terminal == Outcome \in {"done", "failed", "timed_out", "not_found", "given_up"}

====
